---------------------------- MODULE Spec2Model ----------------------------
(***************************************************************************)
(* SealockDoc core-storage: the file service facade (UploadFile,           *)
(* DownloadFile, DeleteFile) over the in-memory block store, the block     *)
(* metadata repository (in-memory mock or GORM table) and the file         *)
(* repository (in-memory mock or GORM table), together with the            *)
(* documented garbage-collection sweep.                                    *)
(*                                                                         *)
(* A call of the mock repositories or of the local store is one atomic     *)
(* step (each takes a mutex); a GORM method is one step per SQL statement, *)
(* so its read and its write are separate steps.  A service method is the  *)
(* sequence of its calls, and concurrent requests interleave between them. *)
(***************************************************************************)
EXTENDS Integers, Sequences, FiniteSets, TLC

\* ------------------------------------------------------------ bounds
MaxLen == 2
BlockSize == 1
MaxOps == 3
MaxRef == 2

Byte == {0, 1}
Clients == {1, 2}

\* All byte sequences of length lo..hi.
BytesOfLen(lo, hi) == UNION {[1..n -> Byte] : n \in lo..hi}
Inputs == BytesOfLen(0, MaxLen)

\* ------------------------------------------------------------ digests
\* sha256.Sum256 + hex.EncodeToString: a collision-free digest.  The number is
\* the bijective base-2 numeral of the bytes, so distinct byte sequences
\* (of any lengths) get distinct digests.
RECURSIVE Sha256(_)
Sha256(data) ==
    IF data = <<>> THEN 0
    ELSE 2 * Sha256(SubSeq(data, 1, Len(data) - 1)) + data[Len(data)] + 1

\* fmt.Sprintf("hash_%d", len(data))
calculateFileHash(data) == <<"hash_", Len(data)>>

FileHashes == {<<"hash_", n>> : n \in 1..MaxLen}

\* json.Marshal / json.Unmarshal of the []string of block hashes.
MarshalJSON(blockHashes) == [json |-> blockHashes]
UnmarshalJSON(blockIDs) == blockIDs.json

Min(a, b) == IF a < b THEN a ELSE b

\* FixedSizeChunker.Chunk: the digest of every BlockSize-d slice, in order.
RECURSIVE ChunkFrom(_, _, _)
ChunkFrom(data, i, bs) ==
    IF i >= Len(data) THEN <<>>
    ELSE LET end == Min(i + bs, Len(data))
         IN  <<Sha256(SubSeq(data, i + 1, end))>> \o ChunkFrom(data, i + bs, bs)

Chunk(data, bs) == IF Len(data) = 0 THEN <<>> ELSE ChunkFrom(data, 0, bs)

\* model.NewBlock: the metadata of a block, RefCount left at its zero value.
NewBlock(data) == [Hash |-> Sha256(data), Size |-> Len(data), RefCount |-> 0]

\* ------------------------------------------------------------ state
VARIABLES
    repoKind,    \* "mock" (Mock*Repository) or "gorm" (GORM repositories)
    blocks,      \* LocalBlockStore.blocks: digest -> bytes
    blockRows,   \* block metadata rows: digest -> model.Block
    files,       \* file rows (model.File)
    nextFileID,  \* next primary key of the GORM files table
    pc,          \* per client: position in the running service method
    data,        \* per client: the data argument of UploadFile
    cur,         \* per client: loop state (i, currentPos, blockHashes, block, file)
    ret,         \* per client: what the last completed call returned
    gcPc,        \* GC sweep: "idle" or "sweep"
    orphans,     \* GC sweep: hashes listed and not yet deleted
    nops,        \* number of operations started
    recording,   \* whether this run keeps the history below
    uploaded,    \* history: per input, the UploadFile calls that returned a file
    call,        \* history: the last completed direct repository call
    layer,       \* the BlockStore callers use: "local", "cached" or "redis"
    cache,       \* Redis: the value under key "block:" + digest
    gone,        \* history: digests deleted with success and not Put since
    uploadChunks,  \* Redis: per uploadId, the fields of upload:<id>:chunks
    uploadTTL,     \* Redis: the uploadIds whose key has an expiry set
    nextUploadID,  \* the next uploadId CheckFileHandler mints
    resp,          \* the last response of an upload handler (status, body)
                   \* and the uploadId, fileHash or bytes of its request
    session,       \* history: per uploadId, the client's file, the
                   \* chunk indices whose upload was answered 200 since
                   \* the session key was last removed, whether a finish
                   \* was answered 200 and whether the key was removed
    finalized,     \* history: file digests FinishUploadHandler answered 200 for
    calc,          \* the last call of a function without state: its
                   \* arguments and its result
    snapshots      \* the snapshot rows in the order of their creation,
                   \* each with the file rows its root was computed from

vars == <<repoKind, blocks, blockRows, files, nextFileID,
          pc, data, cur, ret, gcPc, orphans, nops, recording, uploaded,
          call, layer, cache, gone,
          uploadChunks, uploadTTL, nextUploadID, resp, session, finalized,
          calc, snapshots>>

cacheVars == <<layer, cache, gone>>

sessVars == <<uploadChunks, uploadTTL, nextUploadID, resp, session, finalized>>

NoCalc == [op |-> "none"]

NoHash == <<>>
NoRet == [op |-> "none", status |-> "ok", hash |-> NoHash, bytes |-> <<>>,
          exists |-> FALSE]
NoBlock == [Hash |-> 0, Size |-> 0, RefCount |-> 0]
NoFile == [ID |-> 0, UUID |-> "", Size |-> 0, Hash |-> NoHash,
           BlockIDs |-> MarshalJSON(<<>>)]
NoBefore == [rows |-> <<>>, files |-> {}, blocks |-> <<>>, nops |-> 0]
NoCur == [i |-> 0, currentPos |-> 0, blockHashes |-> <<>>, n |-> 0,
          block |-> NoBlock, file |-> NoFile, before |-> NoBefore,
          hash |-> 0]
NoCall == [op |-> "none", hash |-> 0, arg |-> 0, existed |-> FALSE,
           before |-> 0, status |-> "ok"]
NoNode == [ID |-> 0, ContentHash |-> NoHash, BlockHashes |-> <<>>]
NoResp == [op |-> "none", status |-> 200, error |-> "", uploadId |-> 0,
           exists |-> FALSE, node |-> NoNode, chunkIndex |-> 0,
           missing |-> {}, expected |-> NoHash, reconstructed |-> NoHash,
           reqUploadId |-> 0, reqFileHash |-> NoHash, reqData |-> <<>>]

InitWith(rec) ==
    /\ recording = rec
    /\ repoKind \in {"mock", "gorm"}
    /\ blocks = <<>>
    /\ blockRows = <<>>
    /\ files = {}
    /\ nextFileID = 1
    /\ pc = [c \in Clients |-> "idle"]
    /\ data = [c \in Clients |-> <<>>]
    /\ cur = [c \in Clients |-> NoCur]
    /\ ret = [c \in Clients |-> NoRet]
    /\ gcPc = "idle"
    /\ orphans = {}
    /\ nops = 0
    /\ uploaded = [X \in Inputs |-> 0]
    /\ call = NoCall
    /\ cache = <<>>
    /\ gone = {}
    /\ uploadChunks = <<>>
    /\ uploadTTL = {}
    /\ nextUploadID = 1
    /\ resp = NoResp
    /\ session = <<>>
    /\ finalized = {}
    /\ calc = NoCalc
    /\ snapshots = <<>>

\* The state after construction; the history is not kept.
Init == InitWith(FALSE) /\ layer = "local"

\* The same state, in a run that keeps the history.
InitRecording == InitWith(TRUE) /\ layer = "local"

\* ------------------------------------------------------------ block store
\* A Put that reports success and stores nothing.
LocalPutLost(bl, d) == bl

\* A Put that replaces the whole map by the one new entry.
LocalPutOnly(bl, d) == (Sha256(d) :> d)

\* A Put that allocates one byte too few for its copy.
LocalPutTruncated(bl, d) == (Sha256(d) :> SubSeq(d, 1, Len(d) - 1)) @@ bl

\* LocalBlockStore.Put: store a private copy of data under its digest.
LocalPut(bl, d) == (Sha256(d) :> d) @@ bl

\* LocalBlockStore.Exists
LocalExists(bl, hash) == hash \in DOMAIN bl

\* LocalBlockStore.Delete: remove the entry (the caller sees an error if absent).
LocalDelete(bl, hash) == [h \in (DOMAIN bl) \ {hash} |-> bl[h]]

\* ------------------------------------------------------------ block repository
\* MockBlockRepository.SaveBlockMetadata: m.blocks[block.Hash] = block
MockSaveBlockMetadata(rows, block) == (block.Hash :> block) @@ rows

\* blockRepository.SaveBlockMetadata: db.Create; Hash carries a unique index,
\* so a second row for the same hash is refused and the table is unchanged.
GormSaveBlockMetadata(rows, block) ==
    IF block.Hash \in DOMAIN rows THEN rows ELSE (block.Hash :> block) @@ rows

SaveBlockMetadataFails(rows, block) ==
    repoKind = "gorm" /\ block.Hash \in DOMAIN rows

SaveBlockMetadata(rows, block) ==
    IF repoKind = "mock" THEN MockSaveBlockMetadata(rows, block)
    ELSE GormSaveBlockMetadata(rows, block)

\* MockBlockRepository.IncrementRefCount: under the mutex, add delta to an
\* existing row; a missing row is silently ignored.
MockIncrementRefCount(rows, hash, delta) ==
    IF hash \in DOMAIN rows
    THEN [rows EXCEPT ![hash].RefCount = @ + delta]
    ELSE rows

\* MockBlockRepository.DecrementBlockRefCount: block.RefCount--
MockDecrementBlockRefCount(rows, hash) ==
    IF hash \in DOMAIN rows
    THEN [rows EXCEPT ![hash].RefCount = @ - 1]
    ELSE rows

\* db.Save(&block): write back every field of the row that was loaded.
GormSave(rows, block) == (block.Hash :> block) @@ rows

\* blockRepository.DecrementBlockRefCount writes only when RefCount > 0.
GormDecrementWrites(block) == block.RefCount > 0

\* MockBlockRepository.ListOrphanBlocks: RefCount <= 0
MockListOrphanBlocks(rows) == {h \in DOMAIN rows : rows[h].RefCount <= 0}

\* blockRepository.ListOrphanBlocks: WHERE ref_count = 0
GormListOrphanBlocks(rows) == {h \in DOMAIN rows : rows[h].RefCount = 0}

ListOrphanBlocks(rows) ==
    IF repoKind = "mock" THEN MockListOrphanBlocks(rows)
    ELSE GormListOrphanBlocks(rows)

\* ------------------------------------------------------------ file repository
\* MockFileRepository.CreateFile: m.files[file.Hash] = file (ID is never set).
MockCreateFile(fs, file) == {f \in fs : f.Hash # file.Hash} \cup {file}

\* fileRepository.CreateFile: db.Create; UUID carries a unique index, the
\* primary key is assigned by the table.
GormCreateFileFails(fs, file) == \E f \in fs : f.UUID = file.UUID

GormCreateFile(fs, file, id) == fs \cup {[file EXCEPT !.ID = id]}

\* GetFileByHash: the mock looks the hash up in its map; GORM's First takes
\* the matching row with the smallest primary key.
FilesByHash(fs, hash) == {f \in fs : f.Hash = hash}

GetFileByHash(fs, hash) ==
    CHOOSE f \in FilesByHash(fs, hash) :
        \A g \in FilesByHash(fs, hash) : f.ID <= g.ID

\* MockFileRepository.DeleteFile removes the first row, in map iteration
\* order, whose ID equals fileID; fileRepository.DeleteFile deletes by
\* primary key.  These are the rows either may remove.
DeleteFileCandidates(fs, fileID) == {f \in fs : f.ID = fileID}

\* ------------------------------------------------------------ FileService
\* FileService.DownloadFile, the whole call: look the file up, read every
\* block of its list in order, concatenate.
RECURSIVE ConcatBlocks(_, _)
ConcatBlocks(bl, hashes) ==
    IF hashes = <<>> THEN <<>>
    ELSE bl[Head(hashes)] \o ConcatBlocks(bl, Tail(hashes))

DownloadFile(fs, bl, hash) ==
    IF FilesByHash(fs, hash) = {}
    THEN [op |-> "download",
          status |-> IF repoKind = "mock" THEN "panic" ELSE "error",
          hash |-> hash, bytes |-> <<>>,
          exists |-> FALSE]
    ELSE LET blockHashes == UnmarshalJSON(GetFileByHash(fs, hash).BlockIDs)
         IN  IF \E k \in 1..Len(blockHashes) : ~LocalExists(bl, blockHashes[k])
             THEN [op |-> "download", status |-> "error",
                   hash |-> hash, bytes |-> <<>>,
          exists |-> FALSE]
             ELSE [op |-> "download", status |-> "ok",
                   hash |-> hash, bytes |-> ConcatBlocks(bl, blockHashes),
                   exists |-> FALSE]

Finish(c, r) ==
    /\ pc' = [pc EXCEPT ![c] = IF r.status = "panic" THEN "panicked" ELSE "idle"]
    /\ cur' = [cur EXCEPT ![c] = NoCur]
    /\ ret' = [ret EXCEPT ![c] = IF recording THEN r ELSE NoRet]
    /\ data' = [data EXCEPT ![c] =
                  IF recording /\ r.status = "ok"
                     /\ r.op \in {"upload", "download"}
                  THEN @ ELSE <<>>]

UploadResult(status, hash) ==
    [op |-> "upload", status |-> status, hash |-> hash, bytes |-> <<>>,
          exists |-> FALSE]

DeleteResult(status, hash) ==
    [op |-> "delete", status |-> status, hash |-> hash, bytes |-> <<>>,
          exists |-> FALSE]

\* History: the stores as a call found them, and the number of operations
\* started up to and including this call.
Snapshot ==
    IF recording
    THEN [rows |-> blockRows, files |-> files, blocks |-> blocks,
          nops |-> nops + 1]
    ELSE NoBefore

\* UploadFile, entry: reject empty data, chunk, enter the block loop.
UploadStart(c) ==
    /\ pc[c] = "idle"
    /\ nops < MaxOps
    /\ nops' = nops + 1
    /\ \E X \in Inputs :
        IF Len(X) = 0
        THEN Finish(c, UploadResult("error", NoHash))
        ELSE /\ data' = [data EXCEPT ![c] = X]
             /\ pc' = [pc EXCEPT ![c] = "put"]
             /\ cur' = [cur EXCEPT ![c] =
                          [NoCur EXCEPT
                             !.n = Len(Chunk(X, BlockSize)),
                             !.before = Snapshot]]
             /\ ret' = [ret EXCEPT ![c] = NoRet]
    /\ UNCHANGED <<cacheVars, sessVars, calc, snapshots, recording, uploaded, call, repoKind, blocks, blockRows, files, nextFileID,
                   gcPc, orphans>>

\* data[currentPos:endPos] of the current loop iteration.
CurrentChunkData(c) ==
    SubSeq(data[c], cur[c].currentPos + 1,
           Min(cur[c].currentPos + BlockSize, Len(data[c])))

\* UploadFile, loop body first half: blockStore.Put(currentChunkData).
UploadPut(c) ==
    /\ pc[c] = "put"
    /\ blocks' = LocalPut(blocks, CurrentChunkData(c))
    /\ cur' = [cur EXCEPT ![c].blockHashes =
                 Append(@, Sha256(CurrentChunkData(c)))]
    /\ pc' = [pc EXCEPT ![c] = "inc"]
    /\ UNCHANGED <<cacheVars, sessVars, calc, snapshots, recording, uploaded, call, repoKind, blockRows, files, nextFileID,
                   data, ret, gcPc, orphans, nops>>

\* End of one loop iteration: currentPos = endPos, i++, loop test.
UploadAdvance(c) ==
    /\ cur' = [cur EXCEPT ![c].currentPos =
                            Min(@ + BlockSize, Len(data[c])),
                          ![c].i = @ + 1,
                          ![c].block = NoBlock]
    /\ pc' = [pc EXCEPT ![c] =
                IF cur[c].i + 1 < cur[c].n THEN "put" ELSE "create"]
    /\ UNCHANGED <<ret, data>>

LastHash(c) == cur[c].blockHashes[Len(cur[c].blockHashes)]

\* UploadFile, loop body second half: blockRepo.IncrementRefCount(hash, 1).
\* The mock does it in one locked step; the GORM repository loads the row
\* here (a missing row is an error that aborts the upload) and saves it in
\* UploadIncrementSave.
UploadIncrement(c) ==
    /\ pc[c] = "inc"
    /\ IF repoKind = "mock"
       THEN /\ blockRows' = MockIncrementRefCount(blockRows, LastHash(c), 1)
            /\ UploadAdvance(c)
       ELSE /\ UNCHANGED blockRows
            /\ IF LastHash(c) \in DOMAIN blockRows
               THEN /\ cur' = [cur EXCEPT ![c].block = blockRows[LastHash(c)]]
                    /\ pc' = [pc EXCEPT ![c] = "incSave"]
                    /\ UNCHANGED <<ret, data>>
               ELSE Finish(c, UploadResult("error", NoHash))
    /\ UNCHANGED <<cacheVars, sessVars, calc, snapshots, recording, uploaded, call, repoKind, blocks, files, nextFileID,
                   gcPc, orphans, nops>>

\* blockRepository.IncrementRefCount, second statement: block.RefCount += delta; Save.
UploadIncrementSave(c) ==
    /\ pc[c] = "incSave"
    /\ blockRows' = GormSave(blockRows,
                             [cur[c].block EXCEPT !.RefCount = @ + 1])
    /\ UploadAdvance(c)
    /\ UNCHANGED <<cacheVars, sessVars, calc, snapshots, recording, uploaded, call, repoKind, blocks, files, nextFileID,
                   gcPc, orphans, nops>>

\* The history after one more UploadFile(X) returned a file.
Recorded(up, X) == IF recording THEN [up EXCEPT ![X] = @ + 1] ELSE up

\* The model.File UploadFile builds.
NewFileRow(c) ==
    [ID |-> 0, UUID |-> "", Size |-> Len(data[c]),
     Hash |-> calculateFileHash(data[c]),
     BlockIDs |-> MarshalJSON(cur[c].blockHashes)]

\* UploadFile, after the loop: fileRepo.CreateFile(file) and return.
UploadCreateFile(c) ==
    /\ pc[c] = "create"
    /\ IF repoKind = "mock"
       THEN /\ files' = MockCreateFile(files, NewFileRow(c))
            /\ UNCHANGED nextFileID
            /\ uploaded' = Recorded(uploaded, data[c])
            /\ Finish(c, UploadResult("ok", NewFileRow(c).Hash))
       ELSE IF GormCreateFileFails(files, NewFileRow(c))
            THEN /\ UNCHANGED <<files, nextFileID, uploaded>>
                 /\ Finish(c, UploadResult("error", NoHash))
            ELSE /\ files' = GormCreateFile(files, NewFileRow(c), nextFileID)
                 /\ nextFileID' = nextFileID + 1
                 /\ uploaded' = Recorded(uploaded, data[c])
                 /\ Finish(c, UploadResult("ok", NewFileRow(c).Hash))
    /\ UNCHANGED <<cacheVars, sessVars, calc, snapshots, recording, call, repoKind, blocks, blockRows, gcPc, orphans,
                   nops>>

\* A client downloads by the hash its own UploadFile just returned.
Download(c) ==
    /\ pc[c] = "idle"
    /\ ret[c].op = "upload"
    /\ ret[c].status = "ok"
    /\ Finish(c, DownloadFile(files, blocks, ret[c].hash))
    /\ UNCHANGED <<cacheVars, sessVars, calc, snapshots, recording, uploaded, call, repoKind, blocks, blockRows, files, nextFileID,
                   gcPc, orphans, nops>>

\* DeleteFile, entry: GetFileByHash and the parse of its block list.  The
\* mock returns (nil, nil) for an unknown hash and file.BlockIDs then
\* dereferences nil; the GORM repository returns an error.
DeleteStart(c) ==
    /\ pc[c] = "idle"
    /\ nops < MaxOps
    /\ nops' = nops + 1
    /\ \E hash \in FileHashes :
        IF FilesByHash(files, hash) = {}
        THEN Finish(c, DeleteResult(IF repoKind = "mock" THEN "panic"
                                    ELSE "error", hash))
        ELSE /\ cur' = [cur EXCEPT ![c] =
                          [NoCur EXCEPT
                             !.file = GetFileByHash(files, hash),
                             !.before = Snapshot,
                             !.blockHashes = UnmarshalJSON(
                                 GetFileByHash(files, hash).BlockIDs)]]
             /\ pc' = [pc EXCEPT ![c] = "dec"]
             /\ ret' = [ret EXCEPT ![c] = NoRet]
             /\ data' = [data EXCEPT ![c] = <<>>]
    /\ UNCHANGED <<cacheVars, sessVars, calc, snapshots, recording, uploaded, call, repoKind, blocks, blockRows, files, nextFileID,
                   gcPc, orphans>>

\* End of one iteration of DeleteFile's loop over blockHashes.
DeleteAdvance(c) ==
    /\ cur' = [cur EXCEPT ![c].i = @ + 1, ![c].block = NoBlock]
    /\ pc' = [pc EXCEPT ![c] =
                IF cur[c].i + 1 < Len(cur[c].blockHashes) THEN "dec"
                ELSE "delFile"]

\* DeleteFile, loop body: blockRepo.DecrementBlockRefCount(blockHash); an
\* error is only logged.  GORM loads the row here and saves in
\* DeleteDecrementSave when RefCount > 0.
DeleteDecrement(c) ==
    /\ pc[c] = "dec"
    /\ LET hash == cur[c].blockHashes[cur[c].i + 1]
       IN  IF repoKind = "mock"
           THEN /\ blockRows' = MockDecrementBlockRefCount(blockRows, hash)
                /\ DeleteAdvance(c)
           ELSE /\ UNCHANGED blockRows
                /\ IF hash \in DOMAIN blockRows
                      /\ GormDecrementWrites(blockRows[hash])
                   THEN /\ cur' = [cur EXCEPT ![c].block = blockRows[hash]]
                        /\ pc' = [pc EXCEPT ![c] = "decSave"]
                   ELSE DeleteAdvance(c)
    /\ UNCHANGED <<cacheVars, sessVars, calc, snapshots, recording, uploaded, call, repoKind, blocks, files, nextFileID,
                   data, ret, gcPc, orphans, nops>>

\* blockRepository.DecrementBlockRefCount, second statement: block.RefCount--; Save.
DeleteDecrementSave(c) ==
    /\ pc[c] = "decSave"
    /\ blockRows' = GormSave(blockRows,
                             [cur[c].block EXCEPT !.RefCount = @ - 1])
    /\ DeleteAdvance(c)
    /\ UNCHANGED <<cacheVars, sessVars, calc, snapshots, recording, uploaded, call, repoKind, blocks, files, nextFileID,
                   data, ret, gcPc, orphans, nops>>

\* DeleteFile, after the loop: fileRepo.DeleteFile(file.ID) and return.
DeleteFileRow(c) ==
    /\ pc[c] = "delFile"
    /\ IF DeleteFileCandidates(files, cur[c].file.ID) = {}
       THEN UNCHANGED files
       ELSE \E f \in DeleteFileCandidates(files, cur[c].file.ID) :
                files' = files \ {f}
    /\ Finish(c, DeleteResult("ok", cur[c].file.Hash))
    /\ UNCHANGED <<cacheVars, sessVars, calc, snapshots, recording, uploaded, call, repoKind, blocks, blockRows, nextFileID,
                   gcPc, orphans, nops>>

\* ------------------------------------------------------------ GC sweep
\* orphans, _ := blockRepo.ListOrphanBlocks(ctx)
GCList ==
    /\ gcPc = "idle"
    /\ nops < MaxOps
    /\ nops' = nops + 1
    /\ orphans' = ListOrphanBlocks(blockRows)
    /\ gcPc' = IF ListOrphanBlocks(blockRows) = {} THEN "idle" ELSE "sweep"
    /\ UNCHANGED <<cacheVars, sessVars, calc, snapshots, recording, uploaded, call, repoKind, blocks, blockRows, files, nextFileID,
                   pc, data, cur, ret>>

\* for _, hash := range orphans { blockStore.Delete(ctx, hash) }
GCDelete ==
    /\ gcPc = "sweep"
    /\ \E hash \in orphans :
        /\ blocks' = LocalDelete(blocks, hash)
        /\ orphans' = orphans \ {hash}
        /\ gcPc' = IF orphans = {hash} THEN "idle" ELSE "sweep"
    /\ UNCHANGED <<cacheVars, sessVars, calc, snapshots, recording, uploaded, call, repoKind, blockRows, files, nextFileID,
                   pc, data, cur, ret, nops>>

\* ------------------------------------------------------------ registration
\* A caller registers the metadata row of a block:
\* blockRepo.SaveBlockMetadata(ctx, model.NewBlock(data)).
RegisterBlock ==
    /\ nops < MaxOps
    /\ nops' = nops + 1
    /\ \E d \in BytesOfLen(1, BlockSize) :
        blockRows' = SaveBlockMetadata(blockRows, NewBlock(d))
    /\ UNCHANGED <<cacheVars, sessVars, calc, snapshots, recording, uploaded, call, repoKind, blocks, files, nextFileID,
                   pc, data, cur, ret, gcPc, orphans>>

Upload(c) ==
    \/ UploadStart(c)
    \/ UploadPut(c)
    \/ UploadIncrement(c)
    \/ UploadIncrementSave(c)
    \/ UploadCreateFile(c)

Delete(c) ==
    \/ DeleteStart(c)
    \/ DeleteDecrement(c)
    \/ DeleteDecrementSave(c)
    \/ DeleteFileRow(c)

Next ==
    \/ \E c \in Clients : Upload(c)
    \/ \E c \in Clients : Delete(c)
    \/ GCList
    \/ GCDelete
    \/ RegisterBlock

Spec == Init /\ [][Next]_vars

\* The service without a garbage-collection sweep: no BlockStore.Delete runs.
NextFiles ==
    \/ \E c \in Clients : Upload(c)
    \/ \E c \in Clients : Delete(c)
    \/ RegisterBlock

SpecFiles == Init /\ [][NextFiles]_vars

\* The same service, with the history kept.
SpecFilesRecorded == InitRecording /\ [][NextFiles]_vars

\* Uploads and downloads only, with the history kept: what each client
\* uploaded, what each call returned, the rows before each upload.
NextUpload ==
    \/ \E c \in Clients : Upload(c)
    \/ \E c \in Clients : Download(c)
    \/ RegisterBlock

SpecUpload == InitRecording /\ [][NextUpload]_vars

\* ------------------------------------------------------------ repository calls
\* Callers that use the BlockRepository directly.  call records the last
\* call that returned: its method, digest, argument, whether the row existed
\* and the ref_count it held when the call wrote (or returned), and the
\* error status.
Digests == {Sha256(d) : d \in BytesOfLen(1, BlockSize)}

CallRecord(op, hash, arg, rows, status) ==
    [op |-> op, hash |-> hash, arg |-> arg,
     existed |-> hash \in DOMAIN rows,
     before |-> IF hash \in DOMAIN rows THEN rows[hash].RefCount ELSE 0,
     status |-> status]

RepoUnchanged ==
    UNCHANGED <<cacheVars, sessVars, calc, snapshots, repoKind, blocks, files, nextFileID, data, ret,
                gcPc, orphans, nops, recording, uploaded>>

\* SaveBlockMetadata(ctx, block) with block.RefCount = r.
RepoSaveBlockMetadata ==
    /\ \E d \in BytesOfLen(1, BlockSize), r \in 0..1 :
        LET block == [NewBlock(d) EXCEPT !.RefCount = r]
        IN  /\ blockRows' = SaveBlockMetadata(blockRows, block)
            /\ call' = CallRecord("SaveBlockMetadata", block.Hash, r, blockRows,
                                  IF SaveBlockMetadataFails(blockRows, block)
                                  THEN "error" ELSE "ok")
    /\ UNCHANGED <<pc, cur>>
    /\ RepoUnchanged

\* IncrementRefCount(ctx, hash, 1): the mock in one locked step, the GORM
\* repository with the load here and the write in RepoIncrementSave.
RepoIncrementRefCount(c) ==
    /\ pc[c] = "idle"
    /\ \E hash \in Digests :
        /\ hash \in DOMAIN blockRows => blockRows[hash].RefCount < MaxRef
        /\ IF repoKind = "mock"
           THEN /\ blockRows' = MockIncrementRefCount(blockRows, hash, 1)
                /\ call' = CallRecord("IncrementRefCount", hash, 1,
                                      blockRows, "ok")
                /\ UNCHANGED <<pc, cur>>
           ELSE /\ UNCHANGED blockRows
                /\ IF hash \in DOMAIN blockRows
                   THEN /\ cur' = [cur EXCEPT ![c].block = blockRows[hash]]
                        /\ pc' = [pc EXCEPT ![c] = "repoIncSave"]
                        /\ UNCHANGED call
                   ELSE /\ call' = CallRecord("IncrementRefCount", hash, 1,
                                              blockRows, "error")
                        /\ UNCHANGED <<pc, cur>>
    /\ RepoUnchanged

RepoIncrementSave(c) ==
    /\ pc[c] = "repoIncSave"
    /\ blockRows' = GormSave(blockRows,
                             [cur[c].block EXCEPT !.RefCount = @ + 1])
    /\ call' = CallRecord("IncrementRefCount", cur[c].block.Hash, 1,
                          blockRows, "ok")
    /\ cur' = [cur EXCEPT ![c] = NoCur]
    /\ pc' = [pc EXCEPT ![c] = "idle"]
    /\ RepoUnchanged

\* DecrementBlockRefCount(ctx, hash): the mock in one locked step; the GORM
\* repository loads the row and, when RefCount > 0, writes it back in
\* RepoDecrementSave.
RepoDecrementBlockRefCount(c) ==
    /\ pc[c] = "idle"
    /\ \E hash \in Digests :
        /\ hash \in DOMAIN blockRows => blockRows[hash].RefCount > -MaxRef
        /\ IF repoKind = "mock"
           THEN /\ blockRows' = MockDecrementBlockRefCount(blockRows, hash)
                /\ call' = CallRecord("DecrementBlockRefCount", hash, 1,
                                      blockRows, "ok")
                /\ UNCHANGED <<pc, cur>>
           ELSE /\ UNCHANGED blockRows
                /\ IF hash \in DOMAIN blockRows
                      /\ GormDecrementWrites(blockRows[hash])
                   THEN /\ cur' = [cur EXCEPT ![c].block = blockRows[hash]]
                        /\ pc' = [pc EXCEPT ![c] = "repoDecSave"]
                        /\ UNCHANGED call
                   ELSE /\ call' = CallRecord("DecrementBlockRefCount", hash,
                                              1, blockRows,
                                              IF hash \in DOMAIN blockRows
                                              THEN "ok" ELSE "error")
                        /\ UNCHANGED <<pc, cur>>
    /\ RepoUnchanged

RepoDecrementSave(c) ==
    /\ pc[c] = "repoDecSave"
    /\ blockRows' = GormSave(blockRows,
                             [cur[c].block EXCEPT !.RefCount = @ - 1])
    /\ call' = CallRecord("DecrementBlockRefCount", cur[c].block.Hash, 1,
                          blockRows, "ok")
    /\ cur' = [cur EXCEPT ![c] = NoCur]
    /\ pc' = [pc EXCEPT ![c] = "idle"]
    /\ RepoUnchanged

NextRepo ==
    \/ RepoSaveBlockMetadata
    \/ \E c \in Clients : RepoIncrementRefCount(c)
    \/ \E c \in Clients : RepoIncrementSave(c)
    \/ \E c \in Clients : RepoDecrementBlockRefCount(c)
    \/ \E c \in Clients : RepoDecrementSave(c)

SpecRepo == Init /\ [][NextRepo]_vars

\* ------------------------------------------------------------ cache layer
\* Callers of a BlockStore: the LocalBlockStore itself ("local"), the
\* cachedBlockStore around it ("cached") or the RedisBlockCache around it
\* ("redis").  Every call of the inner store is one step and every Redis
\* command is one step; a Redis command may fail (ok = FALSE) at any time.
Payloads == BytesOfLen(1, BlockSize)

InitStore ==
    /\ InitWith(TRUE)
    /\ repoKind = "mock"
    /\ layer \in {"local", "cached", "redis"}

\* Redis SET / SETEX key value
CacheSet(ca, hash, d) == (hash :> d) @@ ca

\* Redis DEL key
CacheDel(ca, hash) == [h \in (DOMAIN ca) \ {hash} |-> ca[h]]

StoreResult(op, status, hash, bytes, exists) ==
    [op |-> op, status |-> status, hash |-> hash, bytes |-> bytes,
     exists |-> exists]

StoreReturn(c, r) ==
    /\ pc' = [pc EXCEPT ![c] = "idle"]
    /\ cur' = [cur EXCEPT ![c] = NoCur]
    /\ data' = [data EXCEPT ![c] = <<>>]
    /\ ret' = [ret EXCEPT ![c] = r]

StoreUnchanged ==
    UNCHANGED <<repoKind, blockRows, files, nextFileID, gcPc, orphans,
                recording, uploaded, call, layer, sessVars, calc, snapshots>>

\* A caller issues Put(X), Get(d), Exists(d) or Delete(d).
StoreCall(c) ==
    /\ pc[c] = "idle"
    /\ nops < MaxOps
    /\ nops' = nops + 1
    /\ \E op \in {"Put", "Get", "Exists", "Delete"}, X \in Payloads :
        /\ pc' = [pc EXCEPT ![c] = op]
        /\ data' = [data EXCEPT ![c] = IF op = "Put" THEN X ELSE <<>>]
        /\ cur' = [cur EXCEPT ![c] = [NoCur EXCEPT !.hash = Sha256(X)]]
        /\ gone' = IF op = "Put" THEN gone \ {Sha256(X)} ELSE gone
    /\ ret' = [ret EXCEPT ![c] = NoRet]
    /\ UNCHANGED <<blocks, cache>>
    /\ StoreUnchanged

\* Put, first call: the inner store's Put.
StorePut(c) ==
    /\ pc[c] = "Put"
    /\ blocks' = LocalPut(blocks, data[c])
    /\ IF layer = "local"
       THEN StoreReturn(c, StoreResult("Put", "ok", Sha256(data[c]),
                                       <<>>, FALSE))
       ELSE /\ pc' = [pc EXCEPT ![c] = "PutCache"]
            /\ UNCHANGED <<cur, data, ret>>
    /\ UNCHANGED <<cache, gone, nops>>
    /\ StoreUnchanged

\* Put, second call: SetEx / Set of the bytes under the digest; a failure
\* is ignored.
StorePutCache(c) ==
    /\ pc[c] = "PutCache"
    /\ \E ok \in BOOLEAN :
        cache' = IF ok THEN CacheSet(cache, cur[c].hash, data[c]) ELSE cache
    /\ StoreReturn(c, StoreResult("Put", "ok", cur[c].hash, <<>>, FALSE))
    /\ UNCHANGED <<blocks, gone, nops>>
    /\ StoreUnchanged

\* LocalBlockStore.Get, as a result.
LocalGetResult(bl, hash) ==
    IF LocalExists(bl, hash)
    THEN StoreResult("Get", "ok", hash, bl[hash], FALSE)
    ELSE StoreResult("Get", "notfound", hash, <<>>, FALSE)

\* Get, first call: Redis GET; a hit returns the cached bytes.
StoreGet(c) ==
    /\ pc[c] = "Get"
    /\ IF layer = "local"
       THEN StoreReturn(c, LocalGetResult(blocks, cur[c].hash))
       ELSE \E ok \in BOOLEAN :
              IF ok /\ cur[c].hash \in DOMAIN cache
              THEN StoreReturn(c, StoreResult("Get", "ok", cur[c].hash,
                                              cache[cur[c].hash], FALSE))
              ELSE /\ pc' = [pc EXCEPT ![c] = "GetLocal"]
                   /\ UNCHANGED <<cur, data, ret>>
    /\ UNCHANGED <<blocks, cache, gone, nops>>
    /\ StoreUnchanged

\* Get, second call: the inner store's Get.
StoreGetLocal(c) ==
    /\ pc[c] = "GetLocal"
    /\ IF LocalExists(blocks, cur[c].hash)
       THEN /\ data' = [data EXCEPT ![c] = blocks[cur[c].hash]]
            /\ pc' = [pc EXCEPT ![c] = "GetCache"]
            /\ UNCHANGED <<cur, ret>>
       ELSE StoreReturn(c, LocalGetResult(blocks, cur[c].hash))
    /\ UNCHANGED <<blocks, cache, gone, nops>>
    /\ StoreUnchanged

\* Get, third call: SetEx / Set of the bytes read; a failure is ignored.
StoreGetCache(c) ==
    /\ pc[c] = "GetCache"
    /\ \E ok \in BOOLEAN :
        cache' = IF ok THEN CacheSet(cache, cur[c].hash, data[c]) ELSE cache
    /\ StoreReturn(c, StoreResult("Get", "ok", cur[c].hash, data[c], FALSE))
    /\ UNCHANGED <<blocks, gone, nops>>
    /\ StoreUnchanged

\* Exists, first call: Redis EXISTS.  cachedBlockStore returns its error;
\* RedisBlockCache falls through to the inner store.
StoreExists(c) ==
    /\ pc[c] = "Exists"
    /\ IF layer = "local"
       THEN StoreReturn(c, StoreResult("Exists", "ok", cur[c].hash, <<>>,
                                       LocalExists(blocks, cur[c].hash)))
       ELSE \E ok \in BOOLEAN :
              IF ~ok /\ layer = "cached"
              THEN StoreReturn(c, StoreResult("Exists", "error", cur[c].hash,
                                              <<>>, FALSE))
              ELSE IF ok /\ cur[c].hash \in DOMAIN cache
                   THEN StoreReturn(c, StoreResult("Exists", "ok",
                                                   cur[c].hash, <<>>, TRUE))
                   ELSE /\ pc' = [pc EXCEPT ![c] = "ExistsLocal"]
                        /\ UNCHANGED <<cur, data, ret>>
    /\ UNCHANGED <<blocks, cache, gone, nops>>
    /\ StoreUnchanged

\* Exists, second call: the inner store's Exists.
StoreExistsLocal(c) ==
    /\ pc[c] = "ExistsLocal"
    /\ StoreReturn(c, StoreResult("Exists", "ok", cur[c].hash, <<>>,
                                  LocalExists(blocks, cur[c].hash)))
    /\ UNCHANGED <<blocks, cache, gone, nops>>
    /\ StoreUnchanged

\* History: the digest of a Delete that returns success joins gone, unless
\* a Put of the same payload is in progress.
Deleted(g, hash) ==
    IF \E o \in Clients : pc[o] \in {"Put", "PutCache"} /\ cur[o].hash = hash
    THEN g
    ELSE g \cup {hash}

DeleteResultOf(bl, hash) ==
    StoreResult("Delete", IF LocalExists(bl, hash) THEN "ok" ELSE "notfound",
                hash, <<>>, FALSE)

\* Delete, first call.  LocalBlockStore: the delete itself.
\* cachedBlockStore: Redis DEL, a failure ignored.  RedisBlockCache: the
\* inner store's Delete, whose error ends the call.
StoreDelete(c) ==
    /\ pc[c] = "Delete"
    /\ IF layer = "cached"
       THEN /\ \E ok \in BOOLEAN :
                 cache' = IF ok THEN CacheDel(cache, cur[c].hash) ELSE cache
            /\ pc' = [pc EXCEPT ![c] = "DeleteLocal"]
            /\ UNCHANGED <<blocks, gone, cur, data, ret>>
       ELSE /\ blocks' = LocalDelete(blocks, cur[c].hash)
            /\ UNCHANGED cache
            /\ IF layer = "redis" /\ LocalExists(blocks, cur[c].hash)
               THEN /\ pc' = [pc EXCEPT ![c] = "DeleteCache"]
                    /\ UNCHANGED <<gone, cur, data, ret>>
               ELSE /\ StoreReturn(c, DeleteResultOf(blocks, cur[c].hash))
                    /\ gone' = IF LocalExists(blocks, cur[c].hash)
                               THEN Deleted(gone, cur[c].hash) ELSE gone
    /\ UNCHANGED nops
    /\ StoreUnchanged

\* cachedBlockStore.Delete, second call: the inner store's Delete.
StoreDeleteLocal(c) ==
    /\ pc[c] = "DeleteLocal"
    /\ blocks' = LocalDelete(blocks, cur[c].hash)
    /\ StoreReturn(c, DeleteResultOf(blocks, cur[c].hash))
    /\ gone' = IF LocalExists(blocks, cur[c].hash)
               THEN Deleted(gone, cur[c].hash) ELSE gone
    /\ UNCHANGED <<cache, nops>>
    /\ StoreUnchanged

\* RedisBlockCache.Delete, second call: Redis DEL, a failure ignored.
StoreDeleteCache(c) ==
    /\ pc[c] = "DeleteCache"
    /\ \E ok \in BOOLEAN :
        cache' = IF ok THEN CacheDel(cache, cur[c].hash) ELSE cache
    /\ StoreReturn(c, StoreResult("Delete", "ok", cur[c].hash, <<>>, FALSE))
    /\ gone' = Deleted(gone, cur[c].hash)
    /\ UNCHANGED <<blocks, nops>>
    /\ StoreUnchanged

\* A cache entry reaches its expiry.
CacheExpire ==
    /\ \E hash \in DOMAIN cache : cache' = CacheDel(cache, hash)
    /\ UNCHANGED <<blocks, gone, nops, pc, cur, data, ret>>
    /\ StoreUnchanged

NextStore ==
    \/ \E c \in Clients : StoreCall(c)
    \/ \E c \in Clients : StorePut(c)
    \/ \E c \in Clients : StorePutCache(c)
    \/ \E c \in Clients : StoreGet(c)
    \/ \E c \in Clients : StoreGetLocal(c)
    \/ \E c \in Clients : StoreGetCache(c)
    \/ \E c \in Clients : StoreExists(c)
    \/ \E c \in Clients : StoreExistsLocal(c)
    \/ \E c \in Clients : StoreDelete(c)
    \/ \E c \in Clients : StoreDeleteLocal(c)
    \/ \E c \in Clients : StoreDeleteCache(c)
    \/ CacheExpire

SpecStore == InitStore /\ [][NextStore]_vars

\* ------------------------------------------------------------ upload sessions
\* The handlers of upload_handler.go over the session methods of
\* upload_service.go.  A handler is one step; each Redis command of a
\* handler can fail.
MaxSessions == 1

\* A digest computation that ignores its argument.
ComputeSHA256Zero(d) == Sha256(<<0>>)

\* FileService.GetFileNodeByContentHash: returns nil, nil.
GetFileNodeByContentHash(hash) == NoNode

\* FileService.ComputeSHA256
ComputeSHA256(d) == Sha256(d)

\* FileService.ReconstructFileHash: SHA-256 of the concatenated hex digests
\* (the digests have one length, so the concatenation determines the list).
ReconstructFileHash(chunkHashes) == <<"sha256", chunkHashes>>

\* chunker.ComputeFileMerkleHash: SHA-256 of the empty input for no block,
\* else SHA-256 of the concatenated hex digests.
ComputeFileMerkleHash(blockHashes) ==
    IF Len(blockHashes) = 0 THEN <<"sha256", <<>>>>
    ELSE <<"sha256", blockHashes>>

\* FileService.CreateFileNode: builds the node, saves nothing.
CreateFileNode(fileHash, chunkHashes) ==
    [ID |-> 0, ContentHash |-> fileHash, BlockHashes |-> chunkHashes]

\* The files a client uploads in chunks, their chunk count and digest.  The
\* handlers only compare digests, so exchanging the two byte values maps a
\* run to a run: the files that start with byte 0 stand for all.
ClientFiles == {X \in BytesOfLen(1, MaxLen) : X[1] = 0}
TotalChunks(X) == Len(Chunk(X, BlockSize))
FileDigest(X) == ReconstructFileHash(Chunk(X, BlockSize))

\* The chunk digest lists a client sends to finish the upload of X: the
\* list of its chunks, or that list without the last chunk.
FinishLists(X) ==
    {Chunk(Y, BlockSize) : Y \in {X, SubSeq(X, 1, Len(X) - 1)}}

\* HGetAll(upload:<id>:chunks): the received indices; none without the key.
Received(id) ==
    IF id \in DOMAIN uploadChunks THEN uploadChunks[id] ELSE {}

\* A loop that also visits the parsed index and the one after it.
GetMissingChunksMore(received, first) ==
    {i \in 0..(first + 1) : i \notin received}

\* FileService.GetMissingChunks, the loop: totalChunks is parsed from the
\* first field the map iteration yields; the indices below it without a field.
GetMissingChunks(received, first) ==
    {i \in 0..(first - 1) : i \notin received}

\* FileService.GetMissingChunks: the lists it can return.  No field: the
\* nil list.  Otherwise any field can be the first of the iteration.
MissingResults(received) ==
    IF received = {} THEN {{}}
    ELSE {GetMissingChunks(received, first) : first \in received}

SessionUnchanged ==
    UNCHANGED <<repoKind, blocks, blockRows, files, nextFileID, pc, data,
                cur, ret, gcPc, orphans, recording, uploaded, call,
                cacheVars, calc, snapshots>>

Response(op, status, error, id) ==
    [NoResp EXCEPT !.op = op, !.status = status, !.error = error,
                   !.reqUploadId = id]

\* GET /check?fileHash=... without the parameter, or with the digest of a
\* file the client is about to upload.
CheckFileHandler ==
    /\ nextUploadID <= MaxSessions
    /\ \/ /\ resp' = Response("check", 400, "fileHash", 0)
          /\ UNCHANGED <<nextUploadID, session>>
       \/ \E X \in ClientFiles :
          LET fileHash == FileDigest(X)
              fileNode == GetFileNodeByContentHash(fileHash)
          IN  IF fileNode # NoNode
              THEN /\ resp' = [Response("check", 200, "", 0) EXCEPT
                                  !.exists = TRUE, !.node = fileNode,
                                  !.reqFileHash = fileHash]
                   /\ UNCHANGED <<nextUploadID, session>>
              ELSE /\ resp' = [Response("check", 200, "", 0) EXCEPT
                                  !.uploadId = nextUploadID,
                                  !.reqFileHash = fileHash]
                   /\ nextUploadID' = nextUploadID + 1
                   /\ session' = (nextUploadID :>
                                     [X |-> X, sent |-> {}, done |-> FALSE,
                                      over |-> FALSE]) @@ session
    /\ UNCHANGED <<uploadChunks, uploadTTL, finalized, nops>>
    /\ SessionUnchanged

\* An HSet that writes the hash anew with the one field.
HSetOnly(id, index) ==
    [i \in DOMAIN uploadChunks \cup {id} |->
        IF i = id THEN {index} ELSE Received(i)]

\* FileService.RecordChunkReceived: HSet adds the field chunk:<index>.
HSet(id, index) ==
    [i \in DOMAIN uploadChunks \cup {id} |-> Received(i) \cup
                                              (IF i = id THEN {index} ELSE {})]

\* The request body for chunk index of X: the bytes of the chunk, as they
\* are or with the first byte changed on the way.
ChunkBody(X, index, corrupt) ==
    LET body == SubSeq(X, index * BlockSize + 1,
                       Min((index + 1) * BlockSize, Len(X)))
    IN  IF corrupt THEN [body EXCEPT ![1] = 1 - @] ELSE body

\* POST /chunk: the client of session id sends bytes for a chunk index with
\* the digest of that chunk of its file.
UploadChunkHandler ==
    /\ nops < MaxOps
    /\ nops' = nops + 1
    /\ \E id \in DOMAIN session :
        LET X == session[id].X
            total == TotalChunks(X)
            r(index, chunkData, status, error) ==
                [Response("chunk", status, error, id) EXCEPT
                    !.chunkIndex = index, !.reqData = chunkData]
        IN  \E index \in (-1)..total, corrupt \in BOOLEAN :
            LET chunkData == IF index \in 0..(total - 1)
                             THEN ChunkBody(X, index, corrupt) ELSE <<>>
            IN
            IF index < 0 \/ index >= total
            THEN /\ resp' = r(index, chunkData, 400, "index")
                 /\ UNCHANGED <<uploadChunks, uploadTTL, session>>
            ELSE IF ComputeSHA256(chunkData) # Chunk(X, BlockSize)[index + 1]
            THEN /\ resp' = r(index, chunkData, 400, "chunkHash")
                 /\ UNCHANGED <<uploadChunks, uploadTTL, session>>
            ELSE \E recorded \in {"no", "hset", "expire"} :
                 /\ uploadChunks' = IF recorded = "no" THEN uploadChunks
                                    ELSE HSet(id, index)
                 /\ IF recorded = "expire"
                    THEN /\ resp' = r(index, chunkData, 200, "")
                         /\ uploadTTL' = uploadTTL \cup {id}
                         /\ session' = [session EXCEPT ![id].sent =
                                            @ \cup {index}]
                    ELSE /\ resp' = r(index, chunkData, 500, "record")
                         /\ UNCHANGED <<uploadTTL, session>>
    /\ UNCHANGED <<nextUploadID, finalized>>
    /\ SessionUnchanged

\* FileService.CleanupUploadSession: Del(upload:<id>:chunks).
CleanupUploadSession(id) ==
    [i \in DOMAIN uploadChunks \ {id} |-> uploadChunks[i]]

\* The history of the session of id starts again.
SessionOver(id) ==
    [session EXCEPT ![id].sent = {},
                    ![id].over = @ \/ id \in DOMAIN uploadChunks]

\* POST /finish: the client of session id sends a chunk digest list and the
\* expected file digest.
FinishUploadHandler ==
    /\ nops < MaxOps
    /\ nops' = nops + 1
    /\ \E id \in DOMAIN session, hgetall \in BOOLEAN :
        IF ~hgetall
        THEN /\ resp' = Response("finish", 500, "verify", id)
             /\ UNCHANGED <<uploadChunks, uploadTTL, finalized, session>>
        ELSE \E missingChunks \in MissingResults(Received(id)) :
             IF missingChunks # {}
             THEN /\ resp' = [Response("finish", 400, "missing", id) EXCEPT
                                 !.missing = missingChunks]
                  /\ UNCHANGED <<uploadChunks, uploadTTL, finalized, session>>
             ELSE \E chunkHashes \in FinishLists(session[id].X),
                     expected \in FinishLists(session[id].X) :
                  LET fileHash == ReconstructFileHash(expected)
                      reconstructedHash == ReconstructFileHash(chunkHashes)
                  IN  IF reconstructedHash # fileHash
                      THEN /\ resp' = [Response("finish", 400, "fileHash",
                                                   id) EXCEPT !.expected = fileHash,
                                                !.reconstructed =
                                                    reconstructedHash]
                           /\ UNCHANGED <<uploadChunks, uploadTTL, finalized, session>>
                      ELSE /\ resp' = [Response("finish", 200, "", id) EXCEPT
                                          !.node = CreateFileNode(fileHash,
                                                                  chunkHashes)]
                           /\ \/ /\ uploadChunks' = CleanupUploadSession(id)
                                 /\ uploadTTL' = uploadTTL \ {id}
                                 /\ session' = [SessionOver(id) EXCEPT
                                                    ![id].done = TRUE]
                              \/ /\ session' = [session EXCEPT
                                                    ![id].done = TRUE]
                                 /\ UNCHANGED <<uploadChunks, uploadTTL>>
                           /\ finalized' = finalized \cup {fileHash}
    /\ UNCHANGED nextUploadID
    /\ SessionUnchanged

\* The 24 hour expiry of a session key passes.
SessionExpire ==
    /\ \E id \in uploadTTL :
          /\ uploadChunks' = CleanupUploadSession(id)
          /\ uploadTTL' = uploadTTL \ {id}
          /\ session' = SessionOver(id)
    /\ UNCHANGED <<nextUploadID, finalized, resp, nops>>
    /\ SessionUnchanged

InitSession == InitWith(TRUE) /\ repoKind = "mock" /\ layer = "local"

NextSession ==
    \/ CheckFileHandler
    \/ UploadChunkHandler
    \/ FinishUploadHandler
    \/ SessionExpire

SpecSession == InitSession /\ [][NextSession]_vars

\* ------------------------------------------------------------ chunk records
\* Callers run FileService.RecordChunkReceived side by side, one step per
\* Redis command; nothing else touches the session keys meanwhile.
RecordUnchanged ==
    UNCHANGED <<repoKind, blocks, blockRows, files, nextFileID, data, gcPc,
                orphans, recording, uploaded, call, cacheVars,
                nextUploadID, resp, session, finalized, calc, snapshots>>

RecordResult(status) == [NoRet EXCEPT !.op = "record", !.status = status]

\* RecordChunkReceived(uploadID, chunkIndex, totalChunks): HSet.
RecordHSet(c) ==
    /\ pc[c] = "idle"
    /\ nops < MaxOps
    /\ nops' = nops + 1
    /\ \E id \in 1..MaxSessions, chunkIndex \in 0..(MaxLen - 1),
          ok \in BOOLEAN :
        /\ cur' = [cur EXCEPT ![c] = [NoCur EXCEPT !.n = id,
                                                   !.i = chunkIndex]]
        /\ IF ok
           THEN /\ uploadChunks' = HSet(id, chunkIndex)
                /\ pc' = [pc EXCEPT ![c] = "Expire"]
                /\ ret' = [ret EXCEPT ![c] = NoRet]
           ELSE /\ ret' = [ret EXCEPT ![c] = RecordResult("error")]
                /\ UNCHANGED <<uploadChunks, pc>>
    /\ UNCHANGED uploadTTL
    /\ RecordUnchanged

\* RecordChunkReceived: Expire(key, 24h), which is no error without the key.
RecordExpire(c) ==
    /\ pc[c] = "Expire"
    /\ pc' = [pc EXCEPT ![c] = "idle"]
    /\ \E ok \in BOOLEAN :
        IF ok
        THEN /\ uploadTTL' = uploadTTL \cup
                                ({cur[c].n} \cap DOMAIN uploadChunks)
             /\ ret' = [ret EXCEPT ![c] = RecordResult("ok")]
        ELSE /\ ret' = [ret EXCEPT ![c] = RecordResult("error")]
             /\ UNCHANGED uploadTTL
    /\ UNCHANGED <<uploadChunks, cur, nops>>
    /\ RecordUnchanged

NextRecord ==
    \/ \E c \in Clients : RecordHSet(c)
    \/ \E c \in Clients : RecordExpire(c)

SpecRecord == InitSession /\ [][NextRecord]_vars

\* ------------------------------------------------------------ functions
\* Calls of the functions that keep no state: the chunkers, the Merkle tree
\* and the comparisons.  A run makes one call, in one step that records
\* arguments and result.
MaxData == 6
MaxChunk == 4

\* NewFixedSizeChunker: a block size that is not positive becomes 8192.
NewFixedSizeChunker(blockSize) == IF blockSize <= 0 THEN 8192 ELSE blockSize

\* A loop that stops before a block that would be shorter than the size.
RECURSIVE FixedRangesFull(_, _, _)
FixedRangesFull(n, i, bs) ==
    IF i + bs > n THEN <<>>
    ELSE <<<<i, i + bs>>>> \o FixedRangesFull(n, i + bs, bs)

\* FixedSizeChunker.Chunk: the ranges data[i:end] the loop cuts from n bytes.
RECURSIVE FixedRanges(_, _, _)
FixedRanges(n, i, bs) ==
    IF i >= n THEN <<>>
    ELSE <<<<i, Min(i + bs, n)>>>> \o FixedRanges(n, i + bs, bs)

\* NewCDCChunker: sizes that are not positive get their default, and unless
\* min < avg < max all three do.
NewCDCChunker(minSize, avgSize, maxSize) ==
    LET mn == IF minSize <= 0 THEN 2048 ELSE minSize
        av == IF avgSize <= 0 THEN 8192 ELSE avgSize
        mx == IF maxSize <= 0 THEN 65536 ELSE maxSize
    IN  IF mn >= av \/ av >= mx
        THEN [minSize |-> 2048, avgSize |-> 8192, maxSize |-> 65536]
        ELSE [minSize |-> mn, avgSize |-> av, maxSize |-> mx]

\* CDCChunker.isChunkBoundary for len(data) = n.
isChunkBoundary(c, n, pos) ==
    IF pos < c.minSize \/ pos > n THEN FALSE
    ELSE (pos - c.minSize) % c.avgSize = 0

\* The inner scan of CDCChunker.Chunk: the first chunkEnd that is a
\* boundary, or the end of the scan.
RECURSIVE Scan(_, _, _, _)
Scan(c, n, pos, chunkEnd) ==
    IF chunkEnd < pos + c.maxSize /\ chunkEnd < n
          /\ ~isChunkBoundary(c, n, chunkEnd)
    THEN Scan(c, n, pos, chunkEnd + 1)
    ELSE chunkEnd

\* A loop that goes on one byte after the block it has cut.
RECURSIVE CDCRangesSkip(_, _, _)
CDCRangesSkip(c, n, pos) ==
    IF pos >= n THEN <<>>
    ELSE LET chunkEnd == Min(Min(Scan(c, n, pos, pos + c.minSize),
                                 pos + c.maxSize), n)
         IN  <<<<pos, chunkEnd>>>> \o CDCRangesSkip(c, n, chunkEnd + 1)

\* A loop that cuts every block one byte after the maximum size.
RECURSIVE CDCRangesLong(_, _, _)
CDCRangesLong(c, n, pos) ==
    IF pos >= n THEN <<>>
    ELSE LET chunkEnd == Min(pos + c.maxSize + 1, n)
         IN  <<<<pos, chunkEnd>>>> \o CDCRangesLong(c, n, chunkEnd)

\* CDCChunker.Chunk: the ranges data[chunkStart:chunkEnd] cut from n bytes.
RECURSIVE CDCRanges(_, _, _)
CDCRanges(c, n, pos) ==
    IF pos >= n THEN <<>>
    ELSE LET chunkEnd == Min(Min(Scan(c, n, pos, pos + c.minSize),
                                 pos + c.maxSize), n)
         IN  <<<<pos, chunkEnd>>>> \o CDCRanges(c, n, chunkEnd)

\* The digests a chunker returns for the ranges it cut.
Hashes(X, ranges) ==
    [k \in DOMAIN ranges |-> Sha256(SubSeq(X, ranges[k][1] + 1, ranges[k][2]))]

FunctionsUnchanged ==
    UNCHANGED <<repoKind, blocks, blockRows, files, nextFileID, pc, data,
                cur, ret, gcPc, orphans, nops, recording, uploaded, call,
                cacheVars, sessVars, snapshots>>

\* FixedSizeChunker.Chunk(data) of NewFixedSizeChunker(blockSize).
FixedChunk ==
    /\ calc = NoCalc
    /\ FunctionsUnchanged
    /\ \E X \in BytesOfLen(0, MaxData), blockSize \in 0..MaxChunk :
        LET bs == NewFixedSizeChunker(blockSize)
            ranges == IF Len(X) = 0 THEN <<>> ELSE FixedRanges(Len(X), 0, bs)
        IN  calc' = [op |-> "fixed", data |-> X, blockSize |-> bs,
                     ranges |-> ranges, hashes |-> Hashes(X, ranges)]

\* CDCChunker.Chunk(data) of NewCDCChunker(minSize, avgSize, maxSize).
CDCChunk ==
    /\ calc = NoCalc
    /\ FunctionsUnchanged
    /\ \E X \in BytesOfLen(0, MaxData), minSize \in 0..MaxChunk,
       avgSize \in 0..MaxChunk, maxSize \in 0..MaxChunk :
        LET c == NewCDCChunker(minSize, avgSize, maxSize)
            ranges == IF Len(X) = 0 THEN <<>> ELSE CDCRanges(c, Len(X), 0)
        IN  calc' = [op |-> "cdc", data |-> X, c |-> c,
                     given |-> <<minSize, avgSize, maxSize>>,
                     ranges |-> ranges, hashes |-> Hashes(X, ranges)]

\* ------------------------------------------------------- directory trees
\* The largest number of entries of a directory tree, over all its levels.
MaxEntries == 3

\* The names of entries, ordered as the strings they stand for: three, for
\* a level with an odd number of entries.
Names == {1, 2, 3}

\* The contents of files.
Contents == {1, 2}

\* sha256.Sum256([]byte{}): the root of a list without entries.
EmptyHash == <<"sha256", <<>>>>

\* A model.DirectoryEntry: Children is a list of entries, and ChildrenNil
\* tells the nil slice from the empty one.
DirectoryEntry(name, isDir, hash, childrenNil, children) ==
    [Name |-> name, IsDir |-> isDir, Hash |-> hash,
     ChildrenNil |-> childrenNil, Children |-> children]

\* The entry of a file with the content digest d.
FileEntry(name, d) == DirectoryEntry(name, FALSE, <<"file", d>>, TRUE, <<>>)

\* sort.Slice without its comparison: the entries stay as they were given.
SortByNameNot(entries) == entries

\* sort.Slice(sortedEntries, Name <): a sorted copy of the entries.
SortByName(entries) == SortSeq(entries, LAMBDA x, y : x.Name < y.Name)

\* The loop that halves the list of hashes until one is left: the last hash
\* is taken twice when the level is odd.  The digest of the concatenation
\* of two digests of one length is written as the pair.
RECURSIVE MerkleRoot(_)
MerkleRoot(entryHashes) ==
    IF Len(entryHashes) = 1 THEN entryHashes[1]
    ELSE LET padded == IF Len(entryHashes) % 2 = 1
                       THEN Append(entryHashes, entryHashes[Len(entryHashes)])
                       ELSE entryHashes
             newLevel == [i \in 1..(Len(padded) \div 2) |->
                            <<"pair", padded[2 * i - 1], padded[2 * i]>>]
         IN  MerkleRoot(newLevel)

\* SyncService.BuildDirectoryMerkleTree.  The digest of
\* Name + FormatBool(IsDir) + contentHash is written as the tuple of the
\* three: with content hashes that are digests of one length, or empty, the
\* concatenation determines them.
RECURSIVE BuildDirectoryMerkleTree(_)
BuildDirectoryMerkleTree(entries) ==
    IF Len(entries) = 0 THEN EmptyHash
    ELSE LET sortedEntries == SortByName(entries)
             contentHash(entry) ==
                 IF entry.IsDir /\ ~entry.ChildrenNil
                 THEN BuildDirectoryMerkleTree(entry.Children)
                 ELSE entry.Hash
             entryHashes == [i \in 1..Len(sortedEntries) |->
                               <<"entry", sortedEntries[i].Name,
                                 sortedEntries[i].IsDir,
                                 contentHash(sortedEntries[i])>>]
         IN  MerkleRoot(entryHashes)

\* The lists of entries with unique names at every level and m entries over
\* all levels, and the entries that make k of them.
RECURSIVE EntryLists(_), EntriesOf(_)
EntryLists(m) ==
    IF m = 0 THEN {<<>>}
    ELSE UNION {LET first == EntriesOf(k)
                    others == EntryLists(m - k)
                IN  {<<pair[1]>> \o pair[2] :
                        pair \in {q \in first \X others :
                            \A j \in 1..Len(q[2]) : q[2][j].Name # q[1].Name}} :
                k \in 1..m}
EntriesOf(k) ==
    IF k = 1
    THEN UNION {{FileEntry(name, d) : d \in Contents}
                \cup {DirectoryEntry(name, TRUE, NoHash, TRUE, <<>>),
                      DirectoryEntry(name, TRUE, NoHash, FALSE, <<>>)} :
                name \in Names}
    ELSE {DirectoryEntry(name, TRUE, NoHash, FALSE, children) :
            name \in Names, children \in EntryLists(k - 1)}

Trees == UNION {EntryLists(m) : m \in 0..MaxEntries}

\* The same entries in the order of their names, at every level.
RECURSIVE Canonical(_)
Canonical(entries) ==
    SortSeq([i \in 1..Len(entries) |->
                [entries[i] EXCEPT !.Children = Canonical(@)]],
            LAMBDA x, y : x.Name < y.Name)

\* The same entries with another content in one file, at any depth.
RECURSIVE ChangeOneFile(_)
ChangeOneFile(entries) ==
    UNION {LET e == entries[i]
           IN  IF ~e.IsDir
               THEN {[entries EXCEPT ![i].Hash = <<"file", d>>] :
                        d \in Contents \ {e.Hash[2]}}
               ELSE IF ~e.ChildrenNil
               THEN {[entries EXCEPT ![i].Children = ch] :
                        ch \in ChangeOneFile(e.Children)}
               ELSE {} :
           i \in 1..Len(entries)}

\* BuildDirectoryMerkleTree of a tree a, given in any order, and of a
\* tree b: a in the order of the names, or a with one file changed.
BuildTrees ==
    /\ calc = NoCalc
    /\ FunctionsUnchanged
    /\ \E a \in Trees, kind \in {"order", "file"} :
        \E b \in IF kind = "order" THEN {Canonical(a)}
                 ELSE ChangeOneFile(a) :
            calc' = [op |-> "merkle", kind |-> kind, a |-> a, b |-> b,
                     rootA |-> BuildDirectoryMerkleTree(a),
                     rootB |-> BuildDirectoryMerkleTree(b)]

\* ------------------------------------------------------------ comparisons
\* A model.File of a list of files: its Name and its Hash.
File(name, d) == [Name |-> name, Hash |-> <<"file", d>>]

\* The lists of files with unique names.
FileLists ==
    UNION {{fs \in [1..n -> {File(name, d) : name \in Names, d \in Contents}] :
                \A i, j \in 1..n : i # j => fs[i].Name # fs[j].Name} :
           n \in 0..MaxEntries}

\* SyncService.BuildMerkleTree: the digest of the hashes of the files in
\* the order of their names, and the empty string for no files.
BuildMerkleTree(fs) ==
    IF Len(fs) = 0 THEN NoHash
    ELSE LET sorted == SortByName(fs)
         IN  <<"sha256", [i \in 1..Len(sorted) |-> sorted[i].Hash]>>

\* The three lists that CompareMerkleTrees and CompareDirectoryTrees
\* return: nil for equal roots.
NoDiff == [added |-> <<>>, removed |-> <<>>, modified |-> <<>>]

\* The walk over the two sorted lists from the positions i and j, and the
\* two loops over what is left of one of them.
RECURSIVE CompareSorted(_, _, _, _, _)
CompareSorted(old, new, i, j, diff) ==
    IF i <= Len(old) /\ j <= Len(new)
    THEN IF old[i].Name = new[j].Name
         THEN CompareSorted(old, new, i + 1, j + 1,
                  IF old[i].Hash # new[j].Hash
                  THEN [diff EXCEPT !.modified = Append(@, new[j])]
                  ELSE diff)
         ELSE IF old[i].Name < new[j].Name
         THEN CompareSorted(old, new, i + 1, j,
                  [diff EXCEPT !.removed = Append(@, old[i])])
         ELSE CompareSorted(old, new, i, j + 1,
                  [diff EXCEPT !.added = Append(@, new[j])])
    ELSE IF i <= Len(old)
    THEN CompareSorted(old, new, i + 1, j,
             [diff EXCEPT !.removed = Append(@, old[i])])
    ELSE IF j <= Len(new)
    THEN CompareSorted(old, new, i, j + 1,
             [diff EXCEPT !.added = Append(@, new[j])])
    ELSE diff

\* SyncService.CompareMerkleTrees.
CompareMerkleTrees(oldRoot, newRoot, oldFiles, newFiles) ==
    IF oldRoot = newRoot THEN NoDiff
    ELSE CompareSorted(SortByName(oldFiles), SortByName(newFiles), 1, 1,
                       NoDiff)

\* SyncService.CompareDirectoryTrees.
CompareDirectoryTrees(oldRoot, newRoot, oldEntries, newEntries) ==
    IF oldRoot = newRoot THEN NoDiff
    ELSE CompareSorted(SortByName(oldEntries), SortByName(newEntries), 1, 1,
                       NoDiff)

\* The trees that are compared: one entry less than the largest tree.
ComparedTrees == UNION {EntryLists(m) : m \in 0..(MaxEntries - 1)}

\* The same entries with the Hash of every directory that has children set
\* to the root of its children.
RECURSIVE WithTreeHashes(_)
WithTreeHashes(entries) ==
    [i \in 1..Len(entries) |->
        IF entries[i].IsDir /\ ~entries[i].ChildrenNil
        THEN [entries[i] EXCEPT
                !.Hash = BuildDirectoryMerkleTree(entries[i].Children),
                !.Children = WithTreeHashes(@)]
        ELSE entries[i]]

\* CompareMerkleTrees of two lists of files and their roots.
CompareFiles ==
    /\ calc = NoCalc
    /\ FunctionsUnchanged
    /\ \E oldFiles \in FileLists, newFiles \in FileLists :
        LET oldRoot == BuildMerkleTree(oldFiles)
            newRoot == BuildMerkleTree(newFiles)
        IN  calc' = [op |-> "compare", of |-> "files",
                     old |-> oldFiles, new |-> newFiles,
                     oldRoot |-> oldRoot, newRoot |-> newRoot,
                     diff |-> CompareMerkleTrees(oldRoot, newRoot,
                                                 oldFiles, newFiles)]

\* CompareDirectoryTrees of two trees and their roots.  The directories
\* carry no Hash, as convertFilesToDirectoryEntries leaves them, or the root
\* of their children.
CompareTrees ==
    /\ calc = NoCalc
    /\ FunctionsUnchanged
    /\ \E a \in ComparedTrees, b \in ComparedTrees, hashed \in BOOLEAN :
        LET oldEntries == IF hashed THEN WithTreeHashes(a) ELSE a
            newEntries == IF hashed THEN WithTreeHashes(b) ELSE b
            oldRoot == BuildDirectoryMerkleTree(oldEntries)
            newRoot == BuildDirectoryMerkleTree(newEntries)
        IN  calc' = [op |-> "compare", of |-> "trees", hashed |-> hashed,
                     old |-> oldEntries, new |-> newEntries,
                     oldRoot |-> oldRoot, newRoot |-> newRoot,
                     diff |-> CompareDirectoryTrees(oldRoot, newRoot,
                                                    oldEntries, newEntries)]

\* ---------------------------------------------------- blocks of an upload
\* FileService.UploadFile, the block loop: one range data[currentPos:endPos]
\* of the chunker's ChunkSize for each digest the chunker returned.
RECURSIVE UploadRanges(_, _, _, _, _)
UploadRanges(n, i, count, currentPos, blockSize) ==
    IF i >= count THEN <<>>
    ELSE LET endPos == Min(currentPos + blockSize, n)
         IN  <<<<currentPos, endPos>>>>
                 \o UploadRanges(n, i + 1, count, endPos, blockSize)

\* FileService.UploadFile up to the file row, for a service built with a
\* fixed-size or a content-defined chunker: the digests the chunker returns
\* and the digests of the blocks the loop stores.  The assertion
\* s.chunker.(*chunker.FixedSizeChunker) panics on any other chunker.
UploadFileBlocks ==
    /\ calc = NoCalc
    /\ FunctionsUnchanged
    /\ \E X \in BytesOfLen(0, MaxData), kind \in {"fixed", "cdc"},
       size \in 0..MaxChunk :
        LET blockSize == NewFixedSizeChunker(size)
            c == NewCDCChunker(size, size + 1, size + 2)
            ranges == IF Len(X) = 0 THEN <<>>
                      ELSE IF kind = "fixed"
                           THEN FixedRanges(Len(X), 0, blockSize)
                           ELSE CDCRanges(c, Len(X), 0)
            chunks == Hashes(X, ranges)
            stored == Hashes(X, UploadRanges(Len(X), 0, Len(chunks), 0,
                                             blockSize))
        IN  calc' = [op |-> "upload", kind |-> kind, data |-> X,
                     size |-> size, chunks |-> chunks,
                     status |-> IF Len(X) = 0 THEN "error"
                                ELSE IF kind = "fixed" THEN "ok"
                                ELSE "panic",
                     blockHashes |-> IF Len(X) > 0 /\ kind = "fixed"
                                     THEN stored ELSE <<>>]

\* -------------------------------------------------------------- cache expiry
\* Durations in hours: the expiry a cache layer is configured with.
Expiries == {0, 1, 24, 48}

\* NewRedisBlockCache(blockStore, redisAddr, defaultExpiry): the expiry it
\* passes to every Set.
NewRedisBlockCache(defaultExpiry) ==
    IF defaultExpiry = 0 THEN 24 ELSE defaultExpiry

\* InitializeStorage, "local-cached": the expiry it hands to
\* NewCachedBlockStore, which passes it to every SetEx.
InitializeStorage(CacheExpiry) ==
    IF CacheExpiry = 0 THEN 24 ELSE CacheExpiry

\* A cache layer is constructed with a configured expiry.  Redis keeps a
\* key that is Set with the expiry 0 until it is deleted.
NewCache ==
    /\ calc = NoCalc
    /\ FunctionsUnchanged
    /\ \E kind \in {"redis", "local-cached"}, given \in Expiries :
        calc' = [op |-> "cache", kind |-> kind, given |-> given,
                 expiry |-> IF kind = "redis" THEN NewRedisBlockCache(given)
                            ELSE InitializeStorage(given)]

NextFunctions ==
    \/ FixedChunk
    \/ CDCChunk
    \/ BuildTrees
    \/ NewCache
    \/ UploadFileBlocks

SpecFunctions == InitSession /\ [][NextFunctions]_vars

\* ---------------------------------------------------------------- snapshots
\* A snapshot and its rows as the repository returns them: RootHash of the
\* model.Snapshot, FileName and FileHash of every model.SnapshotFile.
SnapshotRows(rootHash, rows) == [RootHash |-> rootHash, files |-> rows]

\* FileService.CreateSnapshot of the files of the repository: a row with
\* the FileName of every file.  It sets neither RootHash nor FileHash.
CreateSnapshot(fs) ==
    SnapshotRows(NoHash, [i \in 1..Len(fs) |->
                        [FileName |-> fs[i].Name, FileHash |-> NoHash]])

\* A snapshot whose rows carry the hashes of the files, and whose RootHash
\* is the root of the files.
StoredSnapshot(fs) ==
    SnapshotRows(BuildMerkleTree(fs),
                 [i \in 1..Len(fs) |->
                    [FileName |-> fs[i].Name, FileHash |-> fs[i].Hash]])

\* The map from FileHash to row that CompareSnapshots fills in the order of
\* the rows: the last row of a hash stays.
FileMap(rows) ==
    [h \in {rows[i].FileHash : i \in 1..Len(rows)} |->
        rows[CHOOSE i \in 1..Len(rows) :
                /\ rows[i].FileHash = h
                /\ \A j \in (i + 1)..Len(rows) : rows[j].FileHash # h]]

\* FileService.CompareSnapshots, after both snapshots and their rows were
\* read.  The lists are sets: they are filled in the order of a Go map.
CompareSnapshots(oldSnapshot, newSnapshot) ==
    IF oldSnapshot.RootHash = newSnapshot.RootHash
    THEN [Added |-> {}, Removed |-> {}, Modified |-> {}]
    ELSE LET oldFileMap == FileMap(oldSnapshot.files)
             newFileMap == FileMap(newSnapshot.files)
         IN  [Added |-> {newFileMap[h] :
                            h \in DOMAIN newFileMap \ DOMAIN oldFileMap},
              Removed |-> {oldFileMap[h] :
                            h \in DOMAIN oldFileMap \ DOMAIN newFileMap},
              Modified |-> {}]

\* CompareSnapshots of two snapshots of lists of files: both made by
\* CreateSnapshot, or both with hashes.
CompareTwoSnapshots ==
    /\ calc = NoCalc
    /\ FunctionsUnchanged
    /\ \E oldFiles \in FileLists, newFiles \in FileLists,
          made \in {"CreateSnapshot", "stored"} :
        LET oldSnapshot == IF made = "stored" THEN StoredSnapshot(oldFiles)
                           ELSE CreateSnapshot(oldFiles)
            newSnapshot == IF made = "stored" THEN StoredSnapshot(newFiles)
                           ELSE CreateSnapshot(newFiles)
        IN  calc' = [op |-> "snapshots", made |-> made,
                     oldFiles |-> oldFiles, newFiles |-> newFiles,
                     old |-> oldSnapshot, new |-> newSnapshot,
                     diff |-> CompareSnapshots(oldSnapshot, newSnapshot)]

NextCompare ==
    \/ CompareFiles
    \/ CompareTrees
    \/ CompareTwoSnapshots

SpecCompare == InitSession /\ [][NextCompare]_vars

\* ------------------------------------------------------------ commits
\* SnapshotService.CreateCommit, as IMPLEMENTATION/README.md lists it, run
\* by callers side by side with UploadFile: every call of a repository is
\* one step, and no transaction or lock spans the steps.
CommitUnchanged ==
    UNCHANGED <<repoKind, blocks, blockRows, files, nextFileID, data, gcPc,
                orphans, recording, uploaded, call, cacheVars, sessVars,
                calc>>

CommitResult(status) == [NoRet EXCEPT !.op = "commit", !.status = status]

\* The orders in which GetAllFiles returns the rows: any order for the
\* mock, which ranges over a Go map; the order of the primary keys for GORM.
GetAllFiles(fs) ==
    {order \in [1..Cardinality(fs) -> fs] :
        /\ \A i, j \in 1..Cardinality(fs) : i # j => order[i] # order[j]
        /\ repoKind = "gorm" =>
              \A i, j \in 1..Cardinality(fs) :
                  i < j => order[i].ID < order[j].ID}

\* CreateCommit, steps 1 and 2: GetAllFiles, and allHashes, the hashes of
\* the files in the order returned; the root is their digest.
CommitStart(c) ==
    /\ pc[c] = "idle"
    /\ nops < MaxOps
    /\ nops' = nops + 1
    /\ \E order \in GetAllFiles(files) :
        cur' = [cur EXCEPT ![c] =
                  [NoCur EXCEPT
                     !.blockHashes = [i \in 1..Len(order) |-> order[i].Hash],
                     !.before = [NoBefore EXCEPT !.files = files]]]
    /\ pc' = [pc EXCEPT ![c] = "getLastCommit"]
    /\ ret' = [ret EXCEPT ![c] = NoRet]
    /\ UNCHANGED snapshots
    /\ CommitUnchanged

\* The root hash the call computed.
currentRootTreeHash(c) == <<"sha256", cur[c].blockHashes>>

\* CreateCommit, steps 3 and 4: getLastCommit takes the first snapshot of
\* ListSnapshots(1, 0), which is any snapshot of the mock's map, and the
\* call ends when its Name is the root hash.
CommitLast(c) ==
    /\ pc[c] = "getLastCommit"
    /\ IF snapshots = <<>>
       THEN /\ pc' = [pc EXCEPT ![c] = "CreateSnapshot"]
            /\ UNCHANGED <<cur, ret>>
       ELSE \E k \in 1..Len(snapshots) :
              IF snapshots[k].Name = currentRootTreeHash(c)
              THEN /\ pc' = [pc EXCEPT ![c] = "idle"]
                   /\ cur' = [cur EXCEPT ![c] = NoCur]
                   /\ ret' = [ret EXCEPT ![c] = CommitResult("error")]
              ELSE /\ pc' = [pc EXCEPT ![c] = "CreateSnapshot"]
                   /\ UNCHANGED <<cur, ret>>
    /\ UNCHANGED <<snapshots, nops>>
    /\ CommitUnchanged

\* CreateCommit, steps 5 and 6: the snapshot with the root hash as Name
\* and RootHash is created.
CommitCreate(c) ==
    /\ pc[c] = "CreateSnapshot"
    /\ snapshots' = Append(snapshots,
                           [Name |-> currentRootTreeHash(c),
                            RootHash |-> currentRootTreeHash(c),
                            files |-> cur[c].before.files])
    /\ pc' = [pc EXCEPT ![c] = "idle"]
    /\ cur' = [cur EXCEPT ![c] = NoCur]
    /\ ret' = [ret EXCEPT ![c] = CommitResult("ok")]
    /\ UNCHANGED nops
    /\ CommitUnchanged

CreateCommit(c) ==
    \/ CommitStart(c)
    \/ CommitLast(c)
    \/ CommitCreate(c)

NextCommit ==
    \/ \E c \in Clients : Upload(c)
    \/ \E c \in Clients : CreateCommit(c)
    \/ RegisterBlock

SpecCommit == Init /\ [][NextCommit]_vars

\* ------------------------------------------------------------ properties
\* No call of the FileService is in progress.
Quiescent == \A c \in Clients : pc[c] \in {"idle", "panicked"}

BlockList(f) == UnmarshalJSON(f.BlockIDs)

\* The bytes of the k-th block UploadFile cuts from X.
BlockData(X, k) ==
    SubSeq(X, (k - 1) * BlockSize + 1, Min(k * BlockSize, Len(X)))

Multiplicity(L, b) == Cardinality({k \in 1..Len(L) : L[k] = b})

RECURSIVE SumRefCount(_, _)
SumRefCount(rows, hs) ==
    IF hs = {} THEN 0
    ELSE LET h == CHOOSE x \in hs : TRUE
         IN  rows[h].RefCount + SumRefCount(rows, hs \ {h})

RECURSIVE SumBlockLists(_)
SumBlockLists(fs) ==
    IF fs = {} THEN 0
    ELSE LET f == CHOOSE x \in fs : TRUE
         IN  Len(BlockList(f)) + SumBlockLists(fs \ {f})

\* C1 (round trip): whenever a client has downloaded by the hash its own
\* UploadFile(name, X) returned, whatever else was uploaded in between, the
\* download succeeded and returned exactly the bytes X.
C1_RoundTrip ==
    \A c \in Clients :
        (pc[c] = "idle" /\ ret[c].op = "download")
            => (ret[c].status = "ok" /\ ret[c].bytes = data[c])

\* C2 (deduplication): when no call is in progress and X is the only input
\* that was uploaded, n times, the block store holds each block of X under
\* its digest and the metadata row of each of these blocks has ref_count n.
C2_Deduplication ==
    Quiescent =>
        \A X \in Inputs :
            (uploaded[X] > 0 /\ \A Y \in Inputs \ {X} : uploaded[Y] = 0)
                => \A k \in 1..Len(Chunk(X, BlockSize)) :
                     LET d == BlockData(X, k)
                     IN  /\ Sha256(d) \in DOMAIN blocks
                         /\ blocks[Sha256(d)] = d
                         /\ Sha256(d) \in DOMAIN blockRows
                         /\ blockRows[Sha256(d)].RefCount = uploaded[X]

\* C3 (ref-count conservation): when every UploadFile and DeleteFile that
\* was started has completed, the sum of ref_count over all block rows
\* equals the sum over all file rows of the length of the row's block list.
C3_RefCountConservation ==
    Quiescent =>
        SumRefCount(blockRows, DOMAIN blockRows) = SumBlockLists(files)

\* C4 (GC safety): no step removes from the block store a block whose
\* metadata row has ref_count > 0 at the moment of the removal, under every
\* interleaving of the sweep with uploads and deletes.
C4_GCSafety ==
    [][\A h \in DOMAIN blocks :
          (h \notin DOMAIN blocks' /\ h \in DOMAIN blockRows)
              => blockRows[h].RefCount <= 0]_vars

\* C5 (upload atomicity on failure): when an UploadFile that is the only
\* activity of any client returns an error after it started, the file rows
\* are those that existed before the call and every block row that existed
\* before the call has the ref_count it had then.
C5_UploadAtomicOnFailure ==
    [][\A c \in Clients :
          ( /\ pc[c] \in {"put", "inc", "incSave", "create"}
            /\ ret'[c].op = "upload"
            /\ ret'[c].status = "error"
            /\ \A o \in Clients \ {c} : pc[o] = "idle" /\ ret[o] = NoRet )
          => /\ files' = cur[c].before.files
             /\ \A h \in DOMAIN cur[c].before.rows :
                  /\ h \in DOMAIN blockRows'
                  /\ blockRows'[h].RefCount = cur[c].before.rows[h].RefCount
      ]_vars

\* C6 (serializable ref-count updates): every IncrementRefCount(h, 1) that
\* returns without error on an existing row leaves the row's ref_count
\* exactly 1 above the value the row held when the call wrote, so that k
\* concurrent calls add exactly k and no update is lost.
C6_NoLostIncrement ==
    (call.op = "IncrementRefCount" /\ call.status = "ok" /\ call.existed)
        => blockRows[call.hash].RefCount = call.before + call.arg

\* C7 (upsert): SaveBlockMetadata for a digest that already has a row
\* returns no error and leaves a ref_count that is the existing ref_count
\* plus the ref_count of the block passed in.
C7_UpsertAdds ==
    (call.op = "SaveBlockMetadata" /\ call.existed)
        => /\ call.status = "ok"
           /\ blockRows[call.hash].RefCount = call.before + call.arg

\* C8 (ref-count never negative): every block row has ref_count >= 0, and a
\* DecrementBlockRefCount on a row whose ref_count is 0 leaves it at 0.
C8_RefCountNeverNegative ==
    /\ \A h \in DOMAIN blockRows : blockRows[h].RefCount >= 0
    /\ (call.op = "DecrementBlockRefCount" /\ call.existed /\ call.before = 0)
           => blockRows[call.hash].RefCount = 0

\* C9 (file rows backed by ref-counts): in every reachable state, also in
\* the middle of an upload, every digest b in the block list L of every
\* file row has a metadata row whose ref_count is at least the number of
\* times b occurs in L.
C9_FileRowsBacked ==
    \A f \in files :
        \A k \in 1..Len(BlockList(f)) :
            /\ BlockList(f)[k] \in DOMAIN blockRows
            /\ blockRows[BlockList(f)[k]].RefCount
                   >= Multiplicity(BlockList(f), BlockList(f)[k])

\* C10 (blocks before file row): as long as no BlockStore.Delete has run,
\* every digest in the block list of a file row is in the block store, and
\* an upload reaches CreateFile only with all of its blocks stored.
C10_BlocksBeforeFileRow ==
    /\ \A f \in files :
          \A k \in 1..Len(BlockList(f)) :
              LocalExists(blocks, BlockList(f)[k])
    /\ \A c \in Clients :
          pc[c] = "create" =>
              \A k \in 1..Len(cur[c].blockHashes) :
                  LocalExists(blocks, cur[c].blockHashes[k])

\* A file row with a block list of two or more blocks has been created.
C10_Witness ==
    \E f \in files : Len(BlockList(f)) >= 2

\* No other client has ever called the service, and no operation was
\* started since client c's current call was.
Alone(c) ==
    /\ \A o \in Clients \ {c} : pc[o] = "idle" /\ ret[o] = NoRet
    /\ nops = cur[c].before.nops

\* C11 (DeleteFile frame): when a DeleteFile(h) that ran alone returns
\* success, the file rows are those from before the call without the row of
\* digest h, the block store is as before, and every block row from before
\* has its ref_count lowered by the number of times its digest occurs in the
\* block list of the deleted file.
C11_DeleteFileFrame ==
    [][\A c \in Clients :
          ( /\ pc[c] = "delFile"
            /\ ret'[c].op = "delete"
            /\ ret'[c].status = "ok"
            /\ Alone(c) )
          => /\ files' = {f \in cur[c].before.files : f.Hash # ret'[c].hash}
             /\ blocks' = cur[c].before.blocks
             /\ \A b \in DOMAIN cur[c].before.rows :
                  /\ b \in DOMAIN blockRows'
                  /\ blockRows'[b].RefCount =
                         cur[c].before.rows[b].RefCount
                             - Multiplicity(cur[c].blockHashes, b)
      ]_vars

\* C12 (GC completes its work once): when the sweep deletes a stored block,
\* the metadata row of that block is gone afterwards, so that no later
\* sweep lists the block again and issues a second Delete for it.
C12_GCOnce ==
    [][\A h \in orphans :
          (h \notin orphans' /\ h \in DOMAIN blocks)
              => (h \notin DOMAIN blocks' /\ h \notin DOMAIN blockRows')]_vars

\* C13 (idempotent Put): every Put(X) of the inner store leaves exactly the
\* entry digest(X) -> X added to what was stored, and leaves the store as it
\* was when that digest was already stored; every Put(X) returns digest(X),
\* whether it is the first Put of X or a later or concurrent one.
C13_IdempotentPut ==
    [][\A c \in Clients :
          /\ (pc[c] = "Put" /\ pc'[c] # "Put") =>
                /\ DOMAIN blocks' = DOMAIN blocks \cup {Sha256(data[c])}
                /\ blocks'[Sha256(data[c])] = data[c]
                /\ \A d \in DOMAIN blocks \ {Sha256(data[c])} :
                       blocks'[d] = blocks[d]
                /\ Sha256(data[c]) \in DOMAIN blocks => blocks' = blocks
          /\ (pc[c] \in {"Put", "PutCache"} /\ pc'[c] = "idle") =>
                /\ ret'[c].status = "ok"
                /\ ret'[c].hash = Sha256(data[c])
      ]_vars

\* Two callers have each put the same payload and got the same digest, and
\* the block is stored.
C13_Witness ==
    \E c \in Clients, o \in Clients :
        /\ c # o
        /\ ret[c].op = "Put" /\ ret[o].op = "Put"
        /\ ret[c].hash = ret[o].hash
        /\ LocalExists(blocks, ret[c].hash)

\* C14 (content-address invariant): every entry of the inner store and every
\* cache entry holds bytes whose digest is the digest it is stored under.
C14_ContentAddressed ==
    /\ \A d \in DOMAIN blocks : Sha256(blocks[d]) = d
    /\ \A d \in DOMAIN cache : Sha256(cache[d]) = d

\* The cache holds an entry while the inner store no longer holds the block,
\* and the inner store holds another block.
C14_Witness ==
    /\ DOMAIN blocks # {}
    /\ \E d \in DOMAIN cache : d \notin DOMAIN blocks

\* C15 (cache is advisory): a Put, Get or Exists through the cache layer
\* that returns while the block is in the inner store returns without
\* error, with the digest, the stored bytes, or true.
C15_CacheAdvisory ==
    [][\A c \in Clients :
          ( /\ pc[c] # "idle" /\ pc'[c] = "idle"
            /\ ret'[c].op \in {"Put", "Get", "Exists"}
            /\ LocalExists(blocks', cur[c].hash) )
          => /\ ret'[c].status = "ok"
             /\ ret'[c].op = "Put" => ret'[c].hash = cur[c].hash
             /\ ret'[c].op = "Get" => ret'[c].bytes = blocks'[cur[c].hash]
             /\ ret'[c].op = "Exists" => ret'[c].exists
      ]_vars

\* What Exists(d) answers through the layer when Redis answers.
ExistsAnswer(d) ==
    IF layer = "local" THEN LocalExists(blocks, d)
    ELSE d \in DOMAIN cache \/ LocalExists(blocks, d)

\* C16 (Delete through the cache layer): once Delete(d) has returned
\* success and no Put of that payload has been issued since, Exists(d)
\* answers false: neither the inner store nor the cache holds d.
C16_DeleteThroughCache ==
    \A d \in gone : ~ExistsAnswer(d)

\* A step of FinishUploadHandler that got the received chunks from Redis.
FinishStep == nops' = nops + 1 /\ resp'.op = "finish" /\ resp'.status # 500

\* The chunk indices of the session of uploadId id.
AllChunks(id) == 0..(TotalChunks(session[id].X) - 1)

\* The list GetMissingChunks returned in a FinishStep: the handler reports
\* it when it is not empty and goes on when it is.
MissingReturned == IF resp'.error = "missing" THEN resp'.missing ELSE {}

\* C17 (missing): the list GetMissingChunks returns for a session is the
\* set of the session's chunk indices 0..total-1 without the indices
\* received, whatever was received and whatever field comes first.
C17_MissingChunks ==
    [][FinishStep =>
          MissingReturned = AllChunks(resp'.reqUploadId)
                                \ Received(resp'.reqUploadId)]_vars

\* C18 (finalize needs every chunk): FinishUpload answers 200 only when
\* every chunk index of the session is received; when an index is not, it
\* answers 400 with exactly the missing indices and creates no file.
C18_FinalizeComplete ==
    [][FinishStep =>
          LET id == resp'.reqUploadId
          IN  /\ resp'.status = 200 => Received(id) = AllChunks(id)
              /\ Received(id) # AllChunks(id) =>
                    /\ resp'.status = 400
                    /\ resp'.error = "missing"
                    /\ resp'.missing = AllChunks(id) \ Received(id)
                    /\ finalized' = finalized
                    /\ files' = files]_vars

C20_InstantUpload ==
    [][/\ (nops' = nops + 1 /\ resp'.op = "finish" /\ resp'.status = 200) =>
            /\ GetFileNodeByContentHash(resp'.node.ContentHash) # NoNode
            /\ \A k \in DOMAIN resp'.node.BlockHashes :
                   LocalExists(blocks', resp'.node.BlockHashes[k])
       /\ ( /\ resp'.op = "check" /\ resp'.status = 200
            /\ nops' = nops /\ uploadChunks' = uploadChunks ) =>
            /\ resp'.exists <=> resp'.reqFileHash \in finalized
            /\ resp'.exists => nextUploadID' = nextUploadID
      ]_vars

\* A step of UploadChunkHandler.
ChunkStep == nops' = nops + 1 /\ resp'.op = "chunk"

\* C21 (finalize is exclusive): once a FinishUpload of a session was
\* answered 200, a later FinishUpload of that session is answered 409
\* Conflict and creates no file.
C21_FinalizeExclusive ==
    [][(FinishStep /\ session[resp'.reqUploadId].done) =>
          /\ resp'.status = 409
          /\ finalized' = finalized]_vars

\* C22 (put_chunk validation): an upload of a chunk whose index is outside
\* 0..total-1 or whose bytes do not hash to the declared chunk digest is
\* answered 400 and leaves the received indices of every session as they
\* were.
C22_ChunkValidation ==
    [][ChunkStep =>
          LET id == resp'.reqUploadId
              index == resp'.chunkIndex
          IN  ( \/ index \notin AllChunks(id)
                \/ Sha256(resp'.reqData)
                       # Chunk(session[id].X, BlockSize)[index + 1] )
              => /\ resp'.status = 400
                 /\ uploadChunks' = uploadChunks
                 /\ uploadTTL' = uploadTTL]_vars

\* The bytes of a chunk upload did not hash to the declared digest, it was
\* answered 400, and the session holds the chunk received before.
C22_Witness ==
    /\ resp.op = "chunk" /\ resp.status = 400 /\ resp.error = "chunkHash"
    /\ Received(resp.reqUploadId) # {}

\* C23 (a destroyed session stays destroyed): after the key of a session
\* was removed, an upload of a chunk with a valid index and digest for that
\* session is answered 404 and does not create the key again.
C23_DestroyedStaysDestroyed ==
    [][(/\ ChunkStep
        /\ session[resp'.reqUploadId].over
        /\ resp'.error \notin {"index", "chunkHash"}) =>
          /\ resp'.status \in {404, 500}
          /\ uploadChunks' = uploadChunks]_vars

\* C24 (concurrent put_chunk): whenever a RecordChunkReceived call has
\* returned success, its index is among the received indices of its session
\* and the session key has its expiry, whatever other calls for the session
\* ran beside it.
C24_ConcurrentChunks ==
    \A c \in Clients :
        (pc[c] = "idle" /\ ret[c].op = "record" /\ ret[c].status = "ok") =>
            /\ cur[c].i \in Received(cur[c].n)
            /\ cur[c].n \in uploadTTL

\* Two calls for one session with different indices have both returned
\* success.
C24_Witness ==
    \E c \in Clients, o \in Clients :
        /\ pc[c] = "idle" /\ ret[c].op = "record" /\ ret[c].status = "ok"
        /\ pc[o] = "idle" /\ ret[o].op = "record" /\ ret[o].status = "ok"
        /\ cur[c].n = cur[o].n
        /\ cur[c].i # cur[o].i

\* The bytes of the k-th block of the last chunker call.
Payload(k) == SubSeq(calc.data, calc.ranges[k][1] + 1, calc.ranges[k][2])

BlockLen(k) == calc.ranges[k][2] - calc.ranges[k][1]

RECURSIVE Concat(_)
Concat(seqs) ==
    IF seqs = <<>> THEN <<>> ELSE Head(seqs) \o Concat(Tail(seqs))

\* C25 (fixed-size chunking): for block size B and n input bytes the
\* fixed-size chunker returns ceil(n/B) digests, the k-th of them the digest
\* of the B bytes from offset (k-1)*B, the last one of the 1..B bytes that
\* are left; no bytes give no digest.
C25_FixedSizeChunking ==
    calc.op = "fixed" =>
        LET n == Len(calc.data)
            B == calc.blockSize
            count == (n + B - 1) \div B
        IN  /\ Len(calc.hashes) = count
            /\ Len(calc.ranges) = count
            /\ calc.hashes = Chunk(calc.data, B)
            /\ \A k \in 1..count :
                  /\ calc.ranges[k][1] = (k - 1) * B
                  /\ k < count => BlockLen(k) = B
                  /\ k = count => BlockLen(k) \in 1..B
                  /\ calc.hashes[k] = Sha256(Payload(k))

\* The fixed-size chunker cut blocks of the block size and a shorter last one.
C25_Witness ==
    /\ calc.op = "fixed"
    /\ Len(calc.ranges) >= 3
    /\ BlockLen(Len(calc.ranges)) < calc.blockSize

\* C26 (chunker exactness): the blocks a chunker cuts start at offset 0,
\* each starts where the one before ends, none is empty, the last ends at
\* the input length, and their bytes in order are the input.
C26_ChunkerExact ==
    calc.op \in {"fixed", "cdc"} =>
        LET count == Len(calc.ranges)
        IN  /\ Len(calc.data) = 0 <=> count = 0
            /\ count > 0 => /\ calc.ranges[1][1] = 0
                            /\ calc.ranges[count][2] = Len(calc.data)
            /\ \A k \in 1..count : calc.ranges[k][1] < calc.ranges[k][2]
            /\ \A k \in 1..(count - 1) :
                  calc.ranges[k][2] = calc.ranges[k + 1][1]
            /\ Concat([k \in 1..count |-> Payload(k)]) = calc.data
            /\ calc.hashes = [k \in 1..count |-> Sha256(Payload(k))]

\* The content-defined chunker cut three blocks or more with the sizes it
\* was given.
C26_Witness ==
    /\ calc.op = "cdc"
    /\ calc.c.minSize = calc.given[1]
    /\ Len(calc.ranges) >= 3

\* The sizes given to NewCDCChunker satisfy 0 < min < avg < max.
ValidSizes ==
    /\ 0 < calc.given[1]
    /\ calc.given[1] < calc.given[2]
    /\ calc.given[2] < calc.given[3]

\* C27 as stated (CDC block lengths): for 0 < min < avg < max every block
\* of the content-defined chunker has a length in min..max.
C27_AllBlocksInBounds ==
    (calc.op = "cdc" /\ ValidSizes) =>
        \A k \in DOMAIN calc.ranges :
            BlockLen(k) \in calc.given[1]..calc.given[3]

\* C27 (CDC block lengths, amended): for 0 < min < avg < max every block
\* but the last has a length in min..max, and the last block, which holds
\* the bytes that are left, has a length in 1..max.
C27_BlocksInBounds ==
    (calc.op = "cdc" /\ ValidSizes) =>
        \A k \in DOMAIN calc.ranges :
            /\ BlockLen(k) \in 1..calc.given[3]
            /\ k < Len(calc.ranges) =>
                  BlockLen(k) \in calc.given[1]..calc.given[3]

\* The last of several blocks is shorter than the minimum size.
C27_Witness ==
    /\ calc.op = "cdc" /\ ValidSizes
    /\ Len(calc.ranges) >= 2
    /\ BlockLen(Len(calc.ranges)) < calc.given[1]

\* C28: BuildDirectoryMerkleTree returns one root for a tree and for the
\* same tree with the entries of every level in another order, and another
\* root when the content digest of one file, at any depth, differs.
C28_MerkleStability ==
    calc.op = "merkle" =>
        /\ calc.kind = "order" => calc.rootA = calc.rootB
        /\ calc.kind = "file" => calc.rootA # calc.rootB

\* Reached: a directory whose two children were given in both orders, and
\* has one root.
C28_Witness ==
    /\ calc.op = "merkle"
    /\ calc.kind = "order"
    /\ Len(calc.a) = 1
    /\ calc.a[1].IsDir
    /\ Len(calc.a[1].Children) = 2
    /\ calc.b[1].Children # calc.a[1].Children
    /\ calc.rootA = calc.rootB

\* The elements and the names of a list of entries.
Range(s) == {s[i] : i \in 1..Len(s)}

NamesOf(s) == {s[i].Name : i \in 1..Len(s)}

\* The old entries without the removed ones, with the added ones, and with
\* the modified ones in the place of the entries of their names.
Patched(old, diff) ==
    {e \in Range(old) :
        e.Name \notin NamesOf(diff.removed) \cup NamesOf(diff.modified)}
    \cup Range(diff.added) \cup Range(diff.modified)

\* C29: for old and new lists with unique names and differing roots, the
\* old entries without the removed, with the added, and with the modified
\* replaced, are the new entries; no name is in two of the three lists.
C29_DiffComplete ==
    calc.op = "compare" /\ calc.oldRoot # calc.newRoot =>
        /\ Patched(calc.old, calc.diff) = Range(calc.new)
        /\ NamesOf(calc.diff.added) \cap NamesOf(calc.diff.removed) = {}
        /\ NamesOf(calc.diff.added) \cap NamesOf(calc.diff.modified) = {}
        /\ NamesOf(calc.diff.removed) \cap NamesOf(calc.diff.modified) = {}

\* The names of the rows of one list of a SnapshotDiff.
FileNames(rows) == {r.FileName : r \in rows}

\* C30: CompareSnapshots reports a name of both snapshots with two digests
\* as modified, and neither as added nor as removed; a name of the new
\* snapshot only as added; a name of the old snapshot only as removed.
C30_ClassifiedByName ==
    calc.op = "snapshots" =>
        \A name \in Names :
            LET inOld == {f \in Range(calc.oldFiles) : f.Name = name}
                inNew == {f \in Range(calc.newFiles) : f.Name = name}
            IN  /\ inOld # {} /\ inNew # {} /\ inOld # inNew =>
                    /\ name \in FileNames(calc.diff.Modified)
                    /\ name \notin FileNames(calc.diff.Added)
                    /\ name \notin FileNames(calc.diff.Removed)
                /\ inOld = {} /\ inNew # {} =>
                    name \in FileNames(calc.diff.Added)
                /\ inOld # {} /\ inNew = {} =>
                    name \in FileNames(calc.diff.Removed)

\* C31: when a directory is in both trees under one name and a file inside
\* it changed, CompareDirectoryTrees reports the directory as modified and
\* reports the changed child.
C31_NestedChanges ==
    calc.op = "compare" /\ calc.of = "trees" =>
        \A i \in 1..Len(calc.old), j \in 1..Len(calc.new) :
            LET o == calc.old[i]
                n == calc.new[j]
                changed == {c \in Range(n.Children) :
                               /\ ~c.IsDir
                               /\ \E b \in Range(o.Children) :
                                    /\ ~b.IsDir
                                    /\ b.Name = c.Name
                                    /\ b.Hash # c.Hash}
            IN  o.Name = n.Name /\ o.IsDir /\ n.IsDir /\ changed # {} =>
                    /\ n.Name \in NamesOf(calc.diff.modified)
                    /\ changed \subseteq Range(calc.diff.modified)

\* C32: DeleteFile called with a digest for which no file row exists
\* returns an error to its caller, who goes on, and leaves the file rows,
\* the block rows and the block store as they were.
C32_UnknownFile ==
    [][\A c \in Clients :
          /\ pc[c] = "idle"
          /\ nops' = nops + 1
          /\ ret'[c].op = "delete"
          /\ FilesByHash(files, ret'[c].hash) = {}
          => /\ ret'[c].status = "error"
             /\ pc'[c] = "idle"
             /\ UNCHANGED <<files, blockRows, blocks>>]_vars

\* C33 (session index invariant): the received indices of a session are
\* among 0..n-1, for the one number n of chunks of the session: the number
\* that the chunk uploads were checked against and the number of chunk
\* digests of a FinishUpload that is answered 200.
C33_SessionIndex ==
    [][/\ \A id \in DOMAIN uploadChunks' :
            uploadChunks'[id] \subseteq
                0..(TotalChunks(session'[id].X) - 1)
       /\ (FinishStep /\ resp'.status = 200) =>
            Received(resp'.reqUploadId) \subseteq
                0..(Len(resp'.node.BlockHashes) - 1)]_vars

\* C34 (Delete attempts both removals): a Delete through a cache layer that
\* returns without a failed Redis command leaves no cache entry for its
\* digest, whether the inner store's Delete succeeded or not, and it
\* returns the inner store's failure.  A return from the first call of
\* RedisBlockCache.Delete has issued no Redis command.
C34_DeleteBoth ==
    [][\A c \in Clients :
          (layer = "redis" /\ pc[c] = "Delete" /\ pc'[c] = "idle") =>
              /\ ret'[c].status = "notfound"
              /\ cur[c].hash \notin DOMAIN cache']_vars

\* C35 (no commit without change): CreateCommit adds no snapshot for the
\* file rows of the snapshot before it, so two calls with the same files
\* add at most one snapshot, however the calls interleave and in whatever
\* order the files are listed.
C35_NoCommitWithoutChange ==
    \A k \in 1..(Len(snapshots) - 1) :
        snapshots[k].files # snapshots[k + 1].files

\* C36 (ttl 0 disables expiry): a cache layer configured with the expiry 0
\* writes its entries without an expiry, and one configured with another
\* expiry writes them with that expiry.
C36_ZeroDisablesExpiry ==
    calc.op = "cache" =>
        /\ calc.given = 0 => calc.expiry = 0
        /\ calc.given # 0 => calc.expiry = calc.given

\* C37: the digest UploadFile stores in a file row is the digest of the
\* row's concatenated block digests, the one ReconstructFileHash and
\* ComputeFileMerkleHash compute for that block list.
C37_OneFileDigest ==
    \A f \in files :
        LET chunkHashes == UnmarshalJSON(f.BlockIDs)
        IN  /\ ReconstructFileHash(chunkHashes)
                 = ComputeFileMerkleHash(chunkHashes)
            /\ f.Hash = ReconstructFileHash(chunkHashes)

\* C38: for every input and either chunker, an UploadFile of data that is
\* not empty stores the blocks whose digests the chunker's Chunk returns,
\* as many and in the same order.
C38_StoredBlocksMatchChunker ==
    (calc.op = "upload" /\ Len(calc.data) > 0) =>
        /\ calc.status = "ok"
        /\ calc.blockHashes = calc.chunks

\* C39 (put_chunk is all-or-nothing): an upload of a chunk answered 200 has
\* recorded its index and left the session key with an expiry; one answered
\* with an error leaves the received indices of every session as they were,
\* so that after it no session has received indices and no expiry.
C39_ChunkAllOrNothing ==
    [][ChunkStep =>
          LET id == resp'.reqUploadId
          IN  /\ resp'.status = 200 =>
                    /\ id \in DOMAIN uploadChunks'
                    /\ resp'.chunkIndex \in uploadChunks'[id]
                    /\ id \in uploadTTL'
              /\ resp'.status # 200 => uploadChunks' = uploadChunks
              /\ \A i \in DOMAIN uploadChunks' :
                    uploadChunks'[i] # {} => i \in uploadTTL']_vars

=============================================================================
